---- MODULE Spec2Model ----
(***************************************************************************)
(* Credential resolution and key rotation of the environment service       *)
(* (packages/shared/lib/services/environment.service.ts).                  *)
(*                                                                         *)
(* The table _nango_environments is the function rows; every `await` on    *)
(* the database is one atomic step of the handler that issues it, so a     *)
(* handler with several awaits is several actions linked by pc.            *)
(***************************************************************************)
EXTENDS Integers, Sequences, FiniteSets, TLC

\* ------------------------------------------------------------------ bounds
MaxEnvs == 1          \* rows the table can hold (ids 1..MaxEnvs)
MaxUuid == 4          \* uuids the generators can hand out
NumProcs == 2         \* request handlers in flight
NumIVs == 1           \* initialization vectors an encryption can draw
NumAccounts == 1      \* accounts of the accounts table
MaxOverrides == 1     \* NANGO_*_KEY_* variables per prefix in process.env
MaxNamedEnvs == 2     \* rows of the table in the override scenario
MaxValues == 2        \* variables one editEnvironmentVariable call carries
MaxEdited == 1        \* metadata columns of a row that differ from their defaults
NumTenants == 2       \* accounts that own environments in the override scenario
MaxScanned == 2       \* NANGO_*_KEY_* variables in process.env in the override scenario

Procs == 1..NumProcs
IVs == 1..NumIVs
Tenants == 1..NumTenants
Accounts == 1..NumAccounts

\* a credential the operator wrote into process.env by hand (not a uuid)
OperatorKey == 101
\* a credential nobody owns (a wrong bearer token)
WrongKey == 102

\* environment names (createEnvironment(0, 'testEnv') in server.integration.test.ts)
\* and the suffixes of the variables an operator names after them
Names == {"dev", "testEnv"}
Suffixes == {"DEV", "TESTENV"}

VARIABLES
    rows,            \* _nango_environments: id -> row
    nextUuid,        \* next value of uuid.v4() / uuid_generate_v4()
    hashLocalCache,  \* Map<string, string>: plaintext secret -> hash
    isCloud,         \* managed-cloud deployment
    ENCRYPTION_KEY,  \* TRUE iff a server-wide encryption key is configured
    envVars,         \* process.env entries NANGO_<prefix>_KEY_<suffix>, in key order
    pc,              \* position of each handler
    loc,             \* locals of each handler
    result,          \* outcome of the operation that completed last
    variables        \* _nango_environment_variables: its rows, in insertion order

vars == <<rows, nextUuid, hashLocalCache, isCloud, ENCRYPTION_KEY, envVars, pc, loc, result,
          variables>>
config == <<isCloud, ENCRYPTION_KEY, envVars>>

\* ids of the table (rows that exist and ids not yet handed out)
EnvIds == DOMAIN rows

\* ------------------------------------------------------------ column values
\* A secret column holds [pt, enc]: enc = 0 is the plaintext pt, enc = iv > 0
\* is the ciphertext of pt under iv; pt = 0 and enc = 0 is SQL NULL.
Plain(k) == [pt |-> k, enc |-> 0]
Cipher(k, iv) == [pt |-> k, enc |-> iv]
NullVal == Plain(0)
Tag(k, iv) == [pt |-> k, iv |-> iv]
NullTag == Tag(0, 0)
NullHash == [of |-> 0, slow |-> FALSE]

\* the columns the edit* functions write: callback_url, webhook_url, hmac_enabled,
\* always_send_webhook, send_auth_webhook, slack_notifications, hmac_key
MetadataColumns ==
    {"callback_url", "webhook_url", "hmac_enabled", "always_send_webhook",
     "send_auth_webhook", "slack_notifications", "hmac_key"}

EmptyRow ==
    [exists |-> FALSE, account_id |-> 0, name |-> "",
     metadata |-> [c \in MetadataColumns |-> 0],
     secret_key |-> NullVal, secret_key_iv |-> 0, secret_key_tag |-> NullTag,
     secret_key_hashed |-> NullHash,
     pending_secret_key |-> NullVal, pending_secret_key_iv |-> 0, pending_secret_key_tag |-> NullTag,
     public_key |-> 0, pending_public_key |-> 0]

\* fault: the digest is computed even when no ENCRYPTION_KEY is set (C34 must notice)
hashSecretKey_AlwaysDigest(key, encKey) == [of |-> key, slow |-> TRUE]

\* hashSecretKey: without ENCRYPTION_KEY the key itself, else its pbkdf2 digest
hashSecretKey(key, encKey) ==
    IF ~encKey THEN [of |-> key, slow |-> FALSE] ELSE [of |-> key, slow |-> TRUE]

\* pbkdf2 rejects a password that is not a string (a null pending key)
hashThrows(key, encKey) == encKey /\ key = 0

\* encryptionManager.encrypt: ciphertext, iv and authentication tag of one field
encrypt(k, iv) == <<Cipher(k, iv), iv, Tag(k, iv)>>

\* encryptionManager.decrypt: TRUE iff the tag verifies for this ciphertext and iv
verifies(val, iv, tag) == iv # 0 /\ val.enc = iv /\ tag = Tag(val.pt, iv)

\* encryptionManager.encryptEnvironment: secret_key under iv1, a present
\* pending_secret_key under iv2, each with its own iv and tag
encryptEnvironment(env, iv1, iv2) ==
    LET e1 == [env EXCEPT !.secret_key = encrypt(env.secret_key.pt, iv1)[1],
                          !.secret_key_iv = encrypt(env.secret_key.pt, iv1)[2],
                          !.secret_key_tag = encrypt(env.secret_key.pt, iv1)[3]]
    IN IF env.pending_secret_key = NullVal THEN e1
       ELSE [e1 EXCEPT !.pending_secret_key = encrypt(env.pending_secret_key.pt, iv2)[1],
                       !.pending_secret_key_iv = encrypt(env.pending_secret_key.pt, iv2)[2],
                       !.pending_secret_key_tag = encrypt(env.pending_secret_key.pt, iv2)[3]]

\* a row that was never encrypted (no iv or tag on the secret key) is returned as is
isEncrypted(env) == env.secret_key_iv # 0 /\ env.secret_key_tag # NullTag

\* decryption fails closed when a tag does not verify
decryptFails(env) ==
    /\ env.exists
    /\ isEncrypted(env)
    /\ \/ ~verifies(env.secret_key, env.secret_key_iv, env.secret_key_tag)
       \/ /\ env.pending_secret_key # NullVal
          /\ ~verifies(env.pending_secret_key, env.pending_secret_key_iv, env.pending_secret_key_tag)

\* encryptionManager.decryptEnvironment: EmptyRow stands for "no usable record"
decryptEnvironment(env) ==
    IF ~env.exists THEN EmptyRow
    ELSE IF ~isEncrypted(env) THEN env
    ELSE IF decryptFails(env) THEN EmptyRow
    ELSE [env EXCEPT !.secret_key = Plain(env.secret_key.pt),
                     !.pending_secret_key =
                         IF env.pending_secret_key = NullVal THEN NullVal
                         ELSE Plain(env.pending_secret_key.pt)]

\* ------------------------------------------------------------------- reads
getRawById(id) == rows[id]
getById(id) == decryptEnvironment(rows[id])

ToLowerCase(s) ==
    CASE s = "DEV" -> "dev"
      [] s = "TESTENV" -> "testenv"
      [] s = "testEnv" -> "testenv"
      [] OTHER -> s

\* process.env: at most max variables NANGO_SECRET_KEY_* / NANGO_PUBLIC_KEY_*,
\* each name once, in the order Object.keys lists them
OverrideLists(max, secrets, publics) ==
    LET entries == [prefix : {"SECRET"}, suffix : Suffixes, value : secrets] \cup
                   [prefix : {"PUBLIC"}, suffix : Suffixes, value : publics]
        lists == UNION {[1..n -> entries] : n \in 0..max}
    IN {l \in lists : \A i, j \in 1..Len(l) :
                          (i # j) => (l[i].prefix # l[j].prefix \/ l[i].suffix # l[j].suffix)}

\* Object.keys(process.env).filter((key) => key.startsWith(prefix))
filterPrefix(l, prefix) == SelectSeq(l, LAMBDA e : e.prefix = prefix)

\* ------------------------------------------------------------ handler state
NoLoc == [id |-> 0, typ |-> "", key |-> 0, environment |-> EmptyRow, hash |-> NullHash,
          derived |-> FALSE, account_id |-> 0, envName |-> "", values |-> <<>>]
NoResult == [op |-> "", typ |-> "", id |-> 0, key |-> 0, ret |-> 0, thrown |-> FALSE,
             derived |-> FALSE, path |-> "", envOk |-> FALSE, storeDown |-> FALSE,
             list |-> <<>>, isArray |-> FALSE, env |-> EmptyRow, account |-> 0,
             name |-> ""]

Done(p, res) ==
    /\ pc' = [pc EXCEPT ![p] = "idle"]
    /\ loc' = [loc EXCEPT ![p] = NoLoc]
    /\ result' = res

Goto(p, label, l) ==
    /\ pc' = [pc EXCEPT ![p] = label]
    /\ loc' = [loc EXCEPT ![p] = l]
    /\ result' = NoResult

Init ==
    /\ rows = [id \in 1..MaxEnvs |-> EmptyRow]
    /\ nextUuid = 1
    /\ hashLocalCache = <<>>
    /\ isCloud \in BOOLEAN
    /\ ENCRYPTION_KEY \in BOOLEAN
    /\ envVars = <<>>
    /\ pc = [p \in Procs |-> "idle"]
    /\ loc = [p \in Procs |-> NoLoc]
    /\ result = NoResult
    /\ variables = <<>>

\* ------------------------------------------------------------ createEnvironment
FreeIds == {id \in EnvIds : ~rows[id].exists}
NextId == CHOOSE id \in FreeIds : \A other \in FreeIds : id <= other

\* fault: the insert already stores a hash of the generated secret (C25 must notice)
insertedRow_WithHash(accountId, name, secret, public) ==
    [EmptyRow EXCEPT !.exists = TRUE, !.account_id = accountId, !.name = name,
                     !.secret_key = Plain(secret), !.public_key = public,
                     !.secret_key_hashed = hashSecretKey(secret, ENCRYPTION_KEY)]

\* the row insert({ account_id, name }) creates: secret_key and public_key are
\* column defaults the database generates, every other credential column is null
insertedRow(accountId, name, secret, public) ==
    [EmptyRow EXCEPT !.exists = TRUE, !.account_id = accountId, !.name = name,
                     !.secret_key = Plain(secret), !.public_key = public]

\* fault: the write-back of creation without the hash (C5 must notice)
createdRow_NoHash(environment, encKey, iv1, iv2) == encryptEnvironment(environment, iv1, iv2)

\* encryptEnvironment({...environment, secret_key_hashed: await hashSecretKey(secret_key)})
createdRow(environment, encKey, iv1, iv2) ==
    encryptEnvironment(
        [environment EXCEPT !.secret_key_hashed = hashSecretKey(environment.secret_key.pt, encKey)],
        iv1, iv2)

\* insert, refused when the account already has an environment of this name
CreateEnvironment_insert(p, accountId, name) ==
    /\ pc[p] = "idle"
    /\ FreeIds # {}
    /\ nextUuid + 1 <= MaxUuid
    /\ IF \E id \in EnvIds : rows[id].exists /\ rows[id].account_id = accountId /\ rows[id].name = name
       THEN /\ Done(p, [NoResult EXCEPT !.op = "createEnvironment", !.thrown = TRUE])
            /\ UNCHANGED <<rows, nextUuid>>
       ELSE /\ rows' = [rows EXCEPT ![NextId] = insertedRow(accountId, name, nextUuid, nextUuid + 1)]
            /\ nextUuid' = nextUuid + 2
            /\ Goto(p, "createEnvironment_getById",
                    [NoLoc EXCEPT !.id = NextId, !.account_id = accountId, !.envName = name])
    /\ UNCHANGED <<hashLocalCache, config, variables>>

CreateEnvironment_getById(p) ==
    /\ pc[p] = "createEnvironment_getById"
    /\ LET environment == getById(loc[p].id)
       IN IF ~environment.exists
          THEN Done(p, [NoResult EXCEPT !.op = "createEnvironment", !.id = loc[p].id])
          ELSE Goto(p, "createEnvironment_update", [loc[p] EXCEPT !.environment = environment])
    /\ UNCHANGED <<rows, nextUuid, hashLocalCache, config, variables>>

\* fault: the caller receives the environment as getById read it, not the
\* decryption of the record that was written (C31 must notice)
CreateEnvironment_update_ReturnsRead(p) ==
    /\ pc[p] = "createEnvironment_update"
    /\ \E iv1, iv2 \in IVs :
         LET encryptedEnvironment == createdRow(loc[p].environment, ENCRYPTION_KEY, iv1, iv2)
         IN /\ rows' = [rows EXCEPT ![loc[p].id] = encryptedEnvironment]
            /\ Done(p, [NoResult EXCEPT !.op = "createEnvironment", !.id = loc[p].id,
                                        !.ret = loc[p].id,
                                        !.env = loc[p].environment])
    /\ UNCHANGED <<nextUuid, hashLocalCache, config, variables>>

CreateEnvironment_update(p) ==
    /\ pc[p] = "createEnvironment_update"
    /\ \E iv1, iv2 \in IVs :
         LET encryptedEnvironment == createdRow(loc[p].environment, ENCRYPTION_KEY, iv1, iv2)
         IN /\ rows' = [rows EXCEPT ![loc[p].id] = encryptedEnvironment]
            /\ Done(p, [NoResult EXCEPT !.op = "createEnvironment", !.id = loc[p].id,
                                        !.ret = loc[p].id,
                                        !.env = decryptEnvironment(encryptedEnvironment)])
    /\ UNCHANGED <<nextUuid, hashLocalCache, config, variables>>

\* ------------------------------------------------------------ rotateSecretKey
RotateSecretKey_getById(p, id) ==
    /\ pc[p] = "idle"
    /\ LET environment == getById(id)
       IN IF ~environment.exists
          THEN Done(p, [NoResult EXCEPT !.op = "rotateKey", !.typ = "secret", !.id = id])
          ELSE Goto(p, "rotateSecretKey_update1",
                    [NoLoc EXCEPT !.id = id, !.typ = "secret", !.environment = environment])
    /\ UNCHANGED <<rows, nextUuid, hashLocalCache, config, variables>>

\* update({ pending_secret_key }): the generated value as it is
pendingSecretRow(row, pending_secret_key) ==
    [row EXCEPT !.pending_secret_key = Plain(pending_secret_key)]

\* fault: a rotation already pending keeps its value (C9 must notice)
withPendingSecret_KeepsOld(environment, pending_secret_key) ==
    IF environment.pending_secret_key # NullVal
    THEN environment
    ELSE [environment EXCEPT !.pending_secret_key = Plain(pending_secret_key)]

\* environment.pending_secret_key = pending_secret_key
withPendingSecret(environment, pending_secret_key) ==
    [environment EXCEPT !.pending_secret_key = Plain(pending_secret_key)]

\* fault: the write-back of a rotation stores the hash of the pending value, so the
\* pending value authenticates (C1 must notice)
rotatedRow_HashesPending(environment, iv1, iv2) ==
    encryptEnvironment(
        [environment EXCEPT !.secret_key_hashed =
                                hashSecretKey(environment.pending_secret_key.pt, ENCRYPTION_KEY)],
        iv1, iv2)

\* update(encryptEnvironment(environment)): every column of the row as getById read it
rotatedRow(environment, iv1, iv2) == encryptEnvironment(environment, iv1, iv2)

RotateSecretKey_update1(p) ==
    /\ pc[p] = "rotateSecretKey_update1"
    /\ nextUuid <= MaxUuid
    /\ rows' = [rows EXCEPT ![loc[p].id] = pendingSecretRow(@, nextUuid)]
    /\ nextUuid' = nextUuid + 1
    /\ Goto(p, "rotateSecretKey_update2",
            [loc[p] EXCEPT !.key = nextUuid,
                           !.environment = withPendingSecret(@, nextUuid)])
    /\ UNCHANGED <<hashLocalCache, config, variables>>

RotateSecretKey_update2(p) ==
    /\ pc[p] = "rotateSecretKey_update2"
    /\ \E iv1, iv2 \in IVs :
         rows' = [rows EXCEPT ![loc[p].id] = rotatedRow(loc[p].environment, iv1, iv2)]
    /\ Done(p, [NoResult EXCEPT !.op = "rotateKey", !.typ = "secret", !.id = loc[p].id,
                                !.key = loc[p].key, !.ret = loc[p].key])
    /\ UNCHANGED <<nextUuid, hashLocalCache, config, variables>>

\* ------------------------------------------------------------ rotatePublicKey
\* update({ pending_public_key })
\* update({ pending_public_key })
pendingPublicRow(row, pending_public_key) ==
    [row EXCEPT !.pending_public_key = pending_public_key]

\* no read: the update matches the row of this id, or no row at all
RotatePublicKey(p, id) ==
    /\ pc[p] = "idle"
    /\ nextUuid <= MaxUuid
    /\ rows' = IF rows[id].exists THEN [rows EXCEPT ![id] = pendingPublicRow(@, nextUuid)] ELSE rows
    /\ nextUuid' = nextUuid + 1
    /\ Done(p, [NoResult EXCEPT !.op = "rotateKey", !.typ = "public", !.id = id,
                                !.key = nextUuid, !.ret = nextUuid])
    /\ UNCHANGED <<hashLocalCache, config, variables>>

\* ------------------------------------------------------------ revert
RevertSecretKey_getById(p, id) ==
    /\ pc[p] = "idle"
    /\ LET environment == getById(id)
       IN IF ~environment.exists
          THEN Done(p, [NoResult EXCEPT !.op = "revertKey", !.typ = "secret", !.id = id])
          ELSE Goto(p, "revertSecretKey_update",
                    [NoLoc EXCEPT !.id = id, !.typ = "secret", !.environment = environment])
    /\ UNCHANGED <<rows, nextUuid, hashLocalCache, config, variables>>

\* fault: revert clears the pending value but leaves its iv and tag (C8 must notice)
revertedSecretRow_KeepsIvTag(row) == [row EXCEPT !.pending_secret_key = NullVal]

\* update({ pending_secret_key: null, pending_secret_key_iv: null, pending_secret_key_tag: null })
revertedSecretRow(row) ==
    [row EXCEPT !.pending_secret_key = NullVal,
                !.pending_secret_key_iv = 0,
                !.pending_secret_key_tag = NullTag]

RevertSecretKey_update(p) ==
    /\ pc[p] = "revertSecretKey_update"
    /\ rows' = [rows EXCEPT ![loc[p].id] = revertedSecretRow(@)]
    /\ Done(p, [NoResult EXCEPT !.op = "revertKey", !.typ = "secret", !.id = loc[p].id,
                                !.ret = loc[p].environment.secret_key.pt])
    /\ UNCHANGED <<nextUuid, hashLocalCache, config, variables>>

RevertPublicKey_getById(p, id) ==
    /\ pc[p] = "idle"
    /\ LET environment == getById(id)
       IN IF ~environment.exists
          THEN Done(p, [NoResult EXCEPT !.op = "revertKey", !.typ = "public", !.id = id])
          ELSE Goto(p, "revertPublicKey_update",
                    [NoLoc EXCEPT !.id = id, !.typ = "public", !.environment = environment])
    /\ UNCHANGED <<rows, nextUuid, hashLocalCache, config, variables>>

\* fault: a revert without a pending public key clears the active one (C20 must
\* notice)
revertedPublicRow_ClearsActive(row) ==
    [row EXCEPT !.pending_public_key = 0,
                !.public_key = IF row.pending_public_key = 0 THEN 0 ELSE @]

\* update({ pending_public_key: null })
revertedPublicRow(row) == [row EXCEPT !.pending_public_key = 0]

RevertPublicKey_update(p) ==
    /\ pc[p] = "revertPublicKey_update"
    /\ rows' = [rows EXCEPT ![loc[p].id] = revertedPublicRow(@)]
    /\ Done(p, [NoResult EXCEPT !.op = "revertKey", !.typ = "public", !.id = loc[p].id,
                                !.ret = loc[p].environment.public_key])
    /\ UNCHANGED <<nextUuid, hashLocalCache, config, variables>>

\* ------------------------------------------------------------ activate
ActivateSecretKey_getRawById(p, id) ==
    /\ pc[p] = "idle"
    /\ LET environment == getRawById(id)
       IN IF ~environment.exists
          THEN Done(p, [NoResult EXCEPT !.op = "activateKey", !.typ = "secret", !.id = id])
          ELSE Goto(p, "activateSecretKey_update",
                    [NoLoc EXCEPT !.id = id, !.typ = "secret", !.environment = environment])
    /\ UNCHANGED <<rows, nextUuid, hashLocalCache, config, variables>>

\* fault: activation clears the pending slot and promotes nothing (C13 must notice)
activateSecretKeyRow_NoPromotion(row, environment, encKey) ==
    [row EXCEPT !.pending_secret_key = NullVal,
                !.pending_secret_key_iv = 0,
                !.pending_secret_key_tag = NullTag]

\* fault: activation promotes the pending ciphertext but keeps the old hash (C2 must
\* notice)
activateSecretKeyRow_KeepsHash(row, environment, encKey) ==
    [row EXCEPT !.secret_key = environment.pending_secret_key,
                !.secret_key_iv = environment.pending_secret_key_iv,
                !.secret_key_tag = environment.pending_secret_key_tag,
                !.pending_secret_key = NullVal,
                !.pending_secret_key_iv = 0,
                !.pending_secret_key_tag = NullTag]

\* the row a single update of activateSecretKey writes, from the raw row it read
activateSecretKeyRow(row, environment, encKey) ==
    [row EXCEPT !.secret_key = environment.pending_secret_key,
                !.secret_key_iv = environment.pending_secret_key_iv,
                !.secret_key_tag = environment.pending_secret_key_tag,
                !.secret_key_hashed =
                    hashSecretKey(decryptEnvironment(environment).pending_secret_key.pt, encKey),
                !.pending_secret_key = NullVal,
                !.pending_secret_key_iv = 0,
                !.pending_secret_key_tag = NullTag]

\* decryptEnvironment(environment)!, hashSecretKey(pending) and the update; a
\* null written to secret_key is accepted or refused by the store (its schema
\* is outside this service)
ActivateSecretKey_update(p) ==
    /\ pc[p] = "activateSecretKey_update"
    /\ LET environment == loc[p].environment
           decrypted == decryptEnvironment(environment)
           thrown == [NoResult EXCEPT !.op = "activateKey", !.typ = "secret", !.id = loc[p].id,
                                      !.thrown = TRUE]
       IN IF ~decrypted.exists \/ hashThrows(decrypted.pending_secret_key.pt, ENCRYPTION_KEY)
          THEN Done(p, thrown) /\ UNCHANGED rows
          ELSE \/ /\ rows' = [rows EXCEPT ![loc[p].id] =
                                 activateSecretKeyRow(@, environment, ENCRYPTION_KEY)]
                  /\ Goto(p, "activateSecretKey_getById", loc[p])
               \/ /\ environment.pending_secret_key = NullVal
                  /\ Done(p, thrown)
                  /\ UNCHANGED rows
    /\ UNCHANGED <<nextUuid, hashLocalCache, config, variables>>

ActivateSecretKey_getById(p) ==
    /\ pc[p] = "activateSecretKey_getById"
    /\ LET updatedEnvironment == getById(loc[p].id)
       IN Done(p, [NoResult EXCEPT !.op = "activateKey", !.typ = "secret", !.id = loc[p].id,
                                   !.ret = IF updatedEnvironment.exists THEN 1 ELSE 0])
    /\ UNCHANGED <<rows, nextUuid, hashLocalCache, config, variables>>

ActivatePublicKey_getById(p, id) ==
    /\ pc[p] = "idle"
    /\ LET environment == getById(id)
       IN IF ~environment.exists
          THEN Done(p, [NoResult EXCEPT !.op = "activateKey", !.typ = "public", !.id = id])
          ELSE Goto(p, "activatePublicKey_update",
                    [NoLoc EXCEPT !.id = id, !.typ = "public", !.environment = environment])
    /\ UNCHANGED <<rows, nextUuid, hashLocalCache, config, variables>>

\* fault: activation of the public key drops a pending secret key (C26 must notice)
activatePublicKeyRow_ClearsSecret(row, environment) ==
    [row EXCEPT !.public_key = environment.pending_public_key,
                !.pending_public_key = 0,
                !.pending_secret_key = NullVal]

\* the row the update of activatePublicKey writes, from the environment it read
activatePublicKeyRow(row, environment) ==
    [row EXCEPT !.public_key = environment.pending_public_key,
                !.pending_public_key = 0]

ActivatePublicKey_update(p) ==
    /\ pc[p] = "activatePublicKey_update"
    /\ \/ /\ rows' = [rows EXCEPT ![loc[p].id] = activatePublicKeyRow(@, loc[p].environment)]
          /\ Done(p, [NoResult EXCEPT !.op = "activateKey", !.typ = "public", !.id = loc[p].id,
                                      !.ret = 1])
       \/ /\ loc[p].environment.pending_public_key = 0
          /\ Done(p, [NoResult EXCEPT !.op = "activateKey", !.typ = "public", !.id = loc[p].id,
                                      !.thrown = TRUE])
          /\ UNCHANGED rows
    /\ UNCHANGED <<nextUuid, hashLocalCache, config, variables>>

\* fault: a type that is neither secret nor public is handled as public by
\* revertKey and activateKey, which drop the pending public key (C40 must notice)
OtherTypeKey_AsPublic(p, op, id) ==
    /\ pc[p] = "idle"
    /\ rows' = IF op = "rotateKey" THEN rows
               ELSE [rows EXCEPT ![id].pending_public_key = 0]
    /\ Done(p, [NoResult EXCEPT !.op = op, !.typ = "other", !.id = id])
    /\ UNCHANGED <<nextUuid, hashLocalCache, config, variables>>

\* rotateKey / revertKey / activateKey with a type that is neither secret nor public
OtherTypeKey(p, op, id) ==
    /\ pc[p] = "idle"
    /\ Done(p, [NoResult EXCEPT !.op = op, !.typ = "other", !.id = id])
    /\ UNCHANGED <<rows, nextUuid, hashLocalCache, config, variables>>

\* ------------------------------------------------------------ resolution
\* fault: the scan keeps the last variable that holds the key (C15 must notice)
FirstMatch_Last(keyVars, key) ==
    IF \E i \in 1..Len(keyVars) : keyVars[i].value = key
    THEN CHOOSE i \in 1..Len(keyVars) :
             /\ keyVars[i].value = key
             /\ \A j \in (i + 1)..Len(keyVars) : keyVars[j].value # key
    ELSE 0

\* fault: the scan finds no variable (C19 must notice)
FirstMatch_None(keyVars, key) == 0

\* index of the first variable of the list whose value is the presented key, 0 if none
FirstMatch(keyVars, key) ==
    IF \E i \in 1..Len(keyVars) : keyVars[i].value = key
    THEN CHOOSE i \in 1..Len(keyVars) :
             /\ keyVars[i].value = key
             /\ \A j \in 1..(i - 1) : keyVars[j].value # key
    ELSE 0

\* fault: when no environment has the derived name, a secret key falls back to
\* the lookup by hash (C39 must notice)
OverrideScan_FallsBack(p, op, keyVars, key) ==
    LET i == FirstMatch(keyVars, key)
        envName == ToLowerCase(keyVars[i].suffix)
        named == {id \in EnvIds : rows[id].exists /\ rows[id].name = envName}
    IN IF named = {}
       THEN IF op = "resolveBySecret"
            THEN Goto(p, "getAccountAndEnvironment_bySecret",
                      [NoLoc EXCEPT !.typ = op, !.key = key,
                                    !.hash = hashSecretKey(key, ENCRYPTION_KEY), !.derived = TRUE])
            ELSE Done(p, [NoResult EXCEPT !.op = op, !.key = key, !.path = "override"])
       ELSE \E id \in named :
                Goto(p, "getAccountAndEnvironment_byName",
                     [NoLoc EXCEPT !.typ = op, !.key = key, !.account_id = rows[id].account_id,
                                   !.envName = envName])

\* the self-hosted scan and its query select account_id where name = envName, first()
OverrideScan(p, op, keyVars, key) ==
    LET i == FirstMatch(keyVars, key)
        envName == ToLowerCase(keyVars[i].suffix)
        named == {id \in EnvIds : rows[id].exists /\ rows[id].name = envName}
    IN IF named = {}
       THEN Done(p, [NoResult EXCEPT !.op = op, !.key = key, !.path = "override"])
       ELSE \E id \in named :
                Goto(p, "getAccountAndEnvironment_byName",
                     [NoLoc EXCEPT !.typ = op, !.key = key, !.account_id = rows[id].account_id,
                                   !.envName = envName])

\* fault: a cache hit yields a hash that is not the key's (C12 must notice)
cacheLookup_Stale(cache, key, encKey) ==
    IF key \in DOMAIN cache
    THEN [hash |-> NullHash, derived |-> FALSE]
    ELSE [hash |-> hashSecretKey(key, encKey), derived |-> TRUE]

\* hashLocalCache.get(secretKey) || (await hashSecretKey(secretKey)); derived
\* tells whether hashSecretKey ran
cacheLookup(cache, key, encKey) ==
    IF key \in DOMAIN cache
    THEN [hash |-> cache[key], derived |-> FALSE]
    ELSE [hash |-> hashSecretKey(key, encKey), derived |-> TRUE]

GetAccountAndEnvironmentBySecretKey(p, secretKey) ==
    /\ pc[p] = "idle"
    /\ IF ~isCloud /\ FirstMatch(filterPrefix(envVars, "SECRET"), secretKey) # 0
       THEN OverrideScan(p, "resolveBySecret", filterPrefix(envVars, "SECRET"), secretKey)
       ELSE Goto(p, "getAccountAndEnvironment_bySecret",
                 [NoLoc EXCEPT !.typ = "resolveBySecret", !.key = secretKey,
                               !.hash = cacheLookup(hashLocalCache, secretKey, ENCRYPTION_KEY).hash,
                               !.derived = cacheLookup(hashLocalCache, secretKey, ENCRYPTION_KEY).derived])
    /\ UNCHANGED <<rows, nextUuid, hashLocalCache, config, variables>>

\* fault: setting a key evicts every other entry of the map (C38 must notice)
cacheSet_Evicts(cache, key, hash) == (key :> hash)

\* fault: setting a key the map already holds damages its entry (C29 must notice)
cacheSet_Clobbers(cache, key, hash) ==
    IF key \in DOMAIN cache THEN (key :> NullHash) @@ cache ELSE (key :> hash) @@ cache

\* fault: a match also caches a key that matched nothing (C11 must notice)
cacheSet_AlsoWrong(cache, key, hash) == (key :> hash) @@ (WrongKey :> hash) @@ cache

\* fault: a successful resolution does not populate the cache (C10 must notice)
cacheSet_Drops(cache, key, hash) == cache

\* hashLocalCache.set(secretKey, hash) after a row matched
cacheSet(cache, key, hash) == (key :> hash) @@ cache

\* fault: a handler that derived the hash holds its query back while another
\* handler's query for the same key is in flight (C30 must notice)
GetAccountAndEnvironment_bySecret_Waits(p) ==
    /\ pc[p] = "getAccountAndEnvironment_bySecret"
    /\ \A q \in Procs \ {p} :
          ~(pc[q] = "getAccountAndEnvironment_bySecret" /\ loc[q].key = loc[p].key)
    /\ LET matched == {id \in EnvIds : rows[id].exists /\ rows[id].secret_key_hashed = loc[p].hash}
           res == [NoResult EXCEPT !.op = "resolveBySecret", !.key = loc[p].key,
                                   !.derived = loc[p].derived, !.path = "hash"]
       IN IF matched = {}
          THEN Done(p, res) /\ UNCHANGED hashLocalCache
          ELSE \E id \in matched :
                   /\ hashLocalCache' = cacheSet(hashLocalCache, loc[p].key, loc[p].hash)
                   /\ Done(p, [res EXCEPT !.id = id, !.ret = id,
                                          !.envOk = decryptEnvironment(rows[id]).exists,
                                          !.account = rows[id].account_id])
    /\ UNCHANGED <<rows, nextUuid, config, variables>>

\* where secret_key_hashed = hash, first(); the cache is written only on a match
GetAccountAndEnvironment_bySecret(p) ==
    /\ pc[p] = "getAccountAndEnvironment_bySecret"
    /\ LET matched == {id \in EnvIds : rows[id].exists /\ rows[id].secret_key_hashed = loc[p].hash}
           res == [NoResult EXCEPT !.op = "resolveBySecret", !.key = loc[p].key,
                                   !.derived = loc[p].derived, !.path = "hash"]
       IN IF matched = {}
          THEN Done(p, res) /\ UNCHANGED hashLocalCache
          ELSE \E id \in matched :
                   /\ hashLocalCache' = cacheSet(hashLocalCache, loc[p].key, loc[p].hash)
                   /\ Done(p, [res EXCEPT !.id = id, !.ret = id,
                                          !.envOk = decryptEnvironment(rows[id]).exists,
                                          !.account = rows[id].account_id])
    /\ UNCHANGED <<rows, nextUuid, config, variables>>

\* fault: the query matches on the name alone and the account of the first
\* query is returned with it (C32 must notice)
GetAccountAndEnvironment_byName_AnyAccount(p) ==
    /\ pc[p] = "getAccountAndEnvironment_byName"
    /\ LET matched == {id \in EnvIds : rows[id].exists /\ rows[id].name = loc[p].envName}
           res == [NoResult EXCEPT !.op = loc[p].typ, !.key = loc[p].key, !.path = "override"]
       IN IF matched = {}
          THEN Done(p, res)
          ELSE \E id \in matched :
                   Done(p, [res EXCEPT !.id = id, !.ret = id,
                                       !.envOk = decryptEnvironment(rows[id]).exists,
                                       !.account = loc[p].account_id])
    /\ UNCHANGED <<rows, nextUuid, hashLocalCache, config, variables>>

\* where account_id = accountId and name = envName, first()
GetAccountAndEnvironment_byName(p) ==
    /\ pc[p] = "getAccountAndEnvironment_byName"
    /\ LET matched == {id \in EnvIds : /\ rows[id].exists
                                       /\ rows[id].account_id = loc[p].account_id
                                       /\ rows[id].name = loc[p].envName}
           res == [NoResult EXCEPT !.op = loc[p].typ, !.key = loc[p].key, !.path = "override"]
       IN IF matched = {}
          THEN Done(p, res)
          ELSE \E id \in matched :
                   Done(p, [res EXCEPT !.id = id, !.ret = id,
                                       !.envOk = decryptEnvironment(rows[id]).exists,
                                       !.account = rows[id].account_id])
    /\ UNCHANGED <<rows, nextUuid, hashLocalCache, config, variables>>

\* await q rejects (the store is unreachable): the error propagates to the
\* caller before line 153, the cache is not written
GetAccountAndEnvironment_queryFails(p) ==
    /\ pc[p] \in {"getAccountAndEnvironment_bySecret", "getAccountAndEnvironment_byName"}
    /\ Done(p, [NoResult EXCEPT !.op = loc[p].typ, !.key = loc[p].key,
                                !.derived = loc[p].derived, !.thrown = TRUE,
                                !.storeDown = TRUE,
                                !.path = IF pc[p] = "getAccountAndEnvironment_bySecret"
                                         THEN "hash" ELSE "override"])
    /\ UNCHANGED <<rows, nextUuid, hashLocalCache, config, variables>>

\* fault: the scan of the public-key variables runs in managed-cloud mode too (C18
\* must notice)
GetAccountAndEnvironmentByPublicKey_IgnoresCloud(p, publicKey) ==
    /\ pc[p] = "idle"
    /\ IF FirstMatch(filterPrefix(envVars, "PUBLIC"), publicKey) # 0
       THEN OverrideScan(p, "resolveByPublicKey", filterPrefix(envVars, "PUBLIC"), publicKey)
       ELSE LET matched == {id \in EnvIds : rows[id].exists /\ rows[id].public_key = publicKey}
                res == [NoResult EXCEPT !.op = "resolveByPublicKey", !.key = publicKey,
                                        !.path = "store"]
            IN IF matched = {}
               THEN Done(p, res)
               ELSE \E id \in matched :
                        Done(p, [res EXCEPT !.id = id, !.ret = id,
                                            !.envOk = decryptEnvironment(rows[id]).exists,
                                            !.account = rows[id].account_id])
    /\ UNCHANGED <<rows, nextUuid, hashLocalCache, config, variables>>

\* the override scan, else where public_key = publicKey, first()
GetAccountAndEnvironmentByPublicKey(p, publicKey) ==
    /\ pc[p] = "idle"
    /\ IF ~isCloud /\ FirstMatch(filterPrefix(envVars, "PUBLIC"), publicKey) # 0
       THEN OverrideScan(p, "resolveByPublicKey", filterPrefix(envVars, "PUBLIC"), publicKey)
       ELSE LET matched == {id \in EnvIds : rows[id].exists /\ rows[id].public_key = publicKey}
                res == [NoResult EXCEPT !.op = "resolveByPublicKey", !.key = publicKey,
                                        !.path = "store"]
            IN IF matched = {}
               THEN Done(p, res)
               ELSE \E id \in matched :
                        Done(p, [res EXCEPT !.id = id, !.ret = id,
                                            !.envOk = decryptEnvironment(rows[id]).exists,
                                            !.account = rows[id].account_id])
    /\ UNCHANGED <<rows, nextUuid, hashLocalCache, config, variables>>

\* ------------------------------------------------------------ process restart
\* stored credentials
ActiveSecrets == {rows[id].secret_key.pt : id \in EnvIds}
ActivePublics == {rows[id].public_key : id \in EnvIds}
StoredSecrets == ActiveSecrets \cup {rows[id].pending_secret_key.pt : id \in EnvIds}
StoredPublics == ActivePublics \cup {rows[id].pending_public_key : id \in EnvIds}

\* the process restarts: hashLocalCache is rebuilt empty and process.env is read
\* anew; the operator writes keys of their own or copies active ones into it, at
\* most max variables
RestartWith(max) ==
    /\ \A p \in Procs : pc[p] = "idle"
    /\ hashLocalCache' = <<>>
    /\ envVars' \in OverrideLists(max, {OperatorKey} \cup (ActiveSecrets \ {0}),
                                       {OperatorKey} \cup (ActivePublics \ {0}))
    /\ result' = NoResult
    /\ UNCHANGED <<rows, nextUuid, isCloud, ENCRYPTION_KEY, pc, loc, variables>>

Restart == RestartWith(MaxOverrides)

\* the sequences that list the elements of S once each
Listings(S) == {f \in [1..Cardinality(S) -> S] : \A x \in S : \E i \in DOMAIN f : f[i] = x}

\* ------------------------------------------------------------ metadata edits
MetadataValues == {0, 1}

\* update({ <column>: value }, ['id'])
editedRow(row, column, value) == [row EXCEPT !.metadata[column] = value]

\* where({ id }).update({ column: value }, ['id']): the ids of the rows updated
EditColumn(p, column, value, id) ==
    /\ pc[p] = "idle"
    /\ Cardinality({c \in MetadataColumns : rows[id].metadata[c] # 0} \cup {column}) <= MaxEdited
    /\ rows' = IF rows[id].exists THEN [rows EXCEPT ![id] = editedRow(@, column, value)] ELSE rows
    /\ Done(p, [NoResult EXCEPT !.op = "edit", !.typ = column, !.id = id,
                                !.ret = IF rows[id].exists THEN id ELSE 0])
    /\ UNCHANGED <<nextUuid, hashLocalCache, config, variables>>

editCallbackUrl(p, callbackUrl, id) == EditColumn(p, "callback_url", callbackUrl, id)
editWebhookUrl(p, webhookUrl, id) == EditColumn(p, "webhook_url", webhookUrl, id)
editHmacEnabled(p, hmacEnabled, id) == EditColumn(p, "hmac_enabled", hmacEnabled, id)
editAlwaysSendWebhook(p, always_send_webhook, id) ==
    EditColumn(p, "always_send_webhook", always_send_webhook, id)
editSendAuthWebhook(p, send_auth_webhook, id) ==
    EditColumn(p, "send_auth_webhook", send_auth_webhook, id)
editSlackNotifications(p, slack_notifications, id) ==
    EditColumn(p, "slack_notifications", slack_notifications, id)
editHmacKey(p, hmacKey, id) == EditColumn(p, "hmac_key", hmacKey, id)

MetadataEdit(p) ==
    \E value \in MetadataValues, id \in EnvIds :
        \/ editCallbackUrl(p, value, id)
        \/ editWebhookUrl(p, value, id)
        \/ editHmacEnabled(p, value, id)
        \/ editAlwaysSendWebhook(p, value, id)
        \/ editSendAuthWebhook(p, value, id)
        \/ editSlackNotifications(p, value, id)
        \/ editHmacKey(p, value, id)

\* ------------------------------------------------------------ environment variables
VarNames == {"A", "B"}
VarValues == {1, 2}
VarPairs == [name : VarNames, value : VarValues]

\* the values lists a caller passes: up to max variables, names may repeat
ValueLists(max) == UNION {[1..n -> VarPairs] : n \in 0..max}

\* encryptEnvironmentVariables: the value of each variable under an IV of its own
encryptEnvironmentVariables(mappedValues, iv) ==
    [i \in DOMAIN mappedValues |->
        [environment_id |-> mappedValues[i].environment_id,
         name |-> mappedValues[i].name,
         value |-> encrypt(mappedValues[i].value, iv)[1],
         value_iv |-> encrypt(mappedValues[i].value, iv)[2],
         value_tag |-> encrypt(mappedValues[i].value, iv)[3]]]

\* decryptEnvironmentVariables: the rows with their values in the clear
decryptEnvironmentVariables(selected) ==
    [i \in DOMAIN selected |-> [name |-> selected[i].name, value |-> selected[i].value.pt]]

\* the rows of the table that where({ environment_id }) selects / leaves
OfEnvironment(table, environment_id) ==
    SelectSeq(table, LAMBDA row : row.environment_id = environment_id)
NotOfEnvironment(table, environment_id) ==
    SelectSeq(table, LAMBDA row : row.environment_id # environment_id)

\* fault: an environment without variables is answered null instead of []
\* (C33 must notice)
GetEnvironmentVariables_NullWhenEmpty(p, environment_id) ==
    /\ pc[p] = "idle"
    /\ LET selected == OfEnvironment(variables, environment_id)
       IN \E order \in Listings(DOMAIN selected) :
              Done(p, [NoResult EXCEPT !.op = "getEnvironmentVariables", !.id = environment_id,
                                      !.isArray = (selected # <<>>),
                                      !.list = decryptEnvironmentVariables(
                                                   [i \in DOMAIN selected |-> selected[order[i]]])])
    /\ UNCHANGED <<rows, nextUuid, hashLocalCache, config, variables>>

\* select * where environment_id, decrypted; the query fixes no order
GetEnvironmentVariables(p, environment_id) ==
    /\ pc[p] = "idle"
    /\ LET selected == OfEnvironment(variables, environment_id)
       IN \E order \in Listings(DOMAIN selected) :
              Done(p, [NoResult EXCEPT !.op = "getEnvironmentVariables", !.id = environment_id,
                                      !.isArray = TRUE,
                                      !.list = decryptEnvironmentVariables(
                                                   [i \in DOMAIN selected |-> selected[order[i]]])])
    /\ UNCHANGED <<rows, nextUuid, hashLocalCache, config, variables>>

\* fault: the delete is skipped, new variables are added to the stored ones (C24
\* must notice)
afterDel_KeepsAll(table, environment_id) == table

\* where({ environment_id }).del()
afterDel(table, environment_id) == NotOfEnvironment(table, environment_id)

\* the delete; an empty values list ends the call with null
EditEnvironmentVariable_del(p, environment_id, values) ==
    /\ pc[p] = "idle"
    /\ variables' = afterDel(variables, environment_id)
    /\ IF Len(values) = 0
       THEN Done(p, [NoResult EXCEPT !.op = "editEnvironmentVariable", !.id = environment_id])
       ELSE Goto(p, "editEnvironmentVariable_insert",
                 [NoLoc EXCEPT !.id = environment_id, !.values = values])
    /\ UNCHANGED <<rows, nextUuid, hashLocalCache, config>>

\* insert(encryptedValues) of the values mapped to the environment
EditEnvironmentVariable_insert(p) ==
    /\ pc[p] = "editEnvironmentVariable_insert"
    /\ LET mappedValues == [i \in DOMAIN loc[p].values |->
                               [environment_id |-> loc[p].id,
                                name |-> loc[p].values[i].name,
                                value |-> loc[p].values[i].value]]
       IN \E iv \in IVs :
              variables' = variables \o encryptEnvironmentVariables(mappedValues, iv)
    /\ Done(p, [NoResult EXCEPT !.op = "editEnvironmentVariable", !.id = loc[p].id,
                                !.ret = Len(loc[p].values), !.list = loc[p].values])
    /\ UNCHANGED <<rows, nextUuid, hashLocalCache, config>>

\* ------------------------------------------------------------ unreachable store
\* the select of getById / getRawById rejects at the start of rotateSecretKey,
\* revertSecretKey, revertPublicKey, activateSecretKey or activatePublicKey: the
\* catch reports the error and returns null, the caller returns null / false
GetById_queryFails(p, op, typ, id) ==
    /\ pc[p] = "idle"
    /\ ~(op = "rotateKey" /\ typ = "public")
    /\ Done(p, [NoResult EXCEPT !.op = op, !.typ = typ, !.id = id, !.storeDown = TRUE])
    /\ UNCHANGED <<rows, nextUuid, hashLocalCache, config, variables>>

\* the same in the getById that follows a write: createEnvironment returns null,
\* activateSecretKey returns false
GetById_queryFailsLater(p) ==
    /\ pc[p] \in {"createEnvironment_getById", "activateSecretKey_getById"}
    /\ Done(p, [NoResult EXCEPT !.op = IF pc[p] = "createEnvironment_getById"
                                       THEN "createEnvironment" ELSE "activateKey",
                                !.typ = loc[p].typ, !.id = loc[p].id, !.storeDown = TRUE])
    /\ UNCHANGED <<rows, nextUuid, hashLocalCache, config, variables>>

\* select name where account_id; a query that rejects is reported and answered []
GetEnvironmentsByAccountId(p, account_id, rejects) ==
    /\ pc[p] = "idle"
    /\ LET res == [NoResult EXCEPT !.op = "getEnvironmentsByAccountId", !.id = account_id,
                                   !.isArray = TRUE]
       IN IF rejects
          THEN Done(p, [res EXCEPT !.storeDown = TRUE])
          ELSE \E names \in Listings({id \in EnvIds : rows[id].exists /\ rows[id].account_id = account_id}) :
                   Done(p, [res EXCEPT !.list = [i \in DOMAIN names |-> rows[names[i]].name]])
    /\ UNCHANGED <<rows, nextUuid, hashLocalCache, config, variables>>

\* ------------------------------------------------------------ single-row reads
\* the uuid column is generated at insert and unique; the model names the uuid
\* of a row by the row's id, and the values above MaxNamedEnvs are uuids of no row
RowUuid(id) == id
Uuids == 1..(MaxNamedEnvs + 1)

\* getById as a call of its own: null without a row, else the decrypted row
GetById(p, id) ==
    /\ pc[p] = "idle"
    /\ LET environment == getById(id)
       IN Done(p, [NoResult EXCEPT !.op = "getById", !.id = id,
                                   !.ret = IF environment.exists THEN id ELSE 0,
                                   !.envOk = environment.exists])
    /\ UNCHANGED <<rows, nextUuid, hashLocalCache, config, variables>>

\* select * where account_id and name: null without a row, else result[0] decrypted
GetByEnvironmentName(p, accountId, name) ==
    /\ pc[p] = "idle"
    /\ LET selected == {id \in EnvIds : /\ rows[id].exists
                                        /\ rows[id].account_id = accountId
                                        /\ rows[id].name = name}
           res == [NoResult EXCEPT !.op = "getByEnvironmentName", !.id = accountId,
                                   !.name = name]
       IN IF selected = {}
          THEN Done(p, res)
          ELSE \E id \in selected :
                   Done(p, [res EXCEPT !.ret = IF decryptEnvironment(rows[id]).exists THEN id ELSE 0,
                                       !.envOk = decryptEnvironment(rows[id]).exists])
    /\ UNCHANGED <<rows, nextUuid, hashLocalCache, config, variables>>

\* select id where uuid: null without a row, else result[0].id
GetIdByUuid(p, uuid) ==
    /\ pc[p] = "idle"
    /\ LET selected == {id \in EnvIds : rows[id].exists /\ RowUuid(id) = uuid}
           res == [NoResult EXCEPT !.op = "getIdByUuid", !.key = uuid]
       IN IF selected = {}
          THEN Done(p, res)
          ELSE \E id \in selected : Done(p, [res EXCEPT !.ret = id])
    /\ UNCHANGED <<rows, nextUuid, hashLocalCache, config, variables>>

\* ------------------------------------------------------------ damaged ciphertext
\* the stored authentication tag of the active secret no longer verifies (the
\* row was tampered with, or written under another key)
Tamper(id) ==
    /\ \A p \in Procs : pc[p] = "idle"
    /\ rows[id].exists
    /\ isEncrypted(rows[id])
    /\ ~decryptFails(rows[id])
    /\ rows' = [rows EXCEPT ![id].secret_key_tag = Tag(WrongKey, rows[id].secret_key_iv)]
    /\ result' = NoResult
    /\ UNCHANGED <<nextUuid, hashLocalCache, config, pc, loc, variables>>

\* ------------------------------------------------------------ specifications
\* credentials a caller can present: stored, cached (rotated out), configured or wrong ones
OverrideValues(prefix) == {envVars[i].value : i \in {j \in 1..Len(envVars) : envVars[j].prefix = prefix}}
PresentedSecrets ==
    ((StoredSecrets \cup DOMAIN hashLocalCache \cup OverrideValues("SECRET")) \ {0}) \cup {WrongKey}
PresentedPublics == ((StoredPublics \cup OverrideValues("PUBLIC")) \ {0}) \cup {WrongKey}

AdminStart(p) ==
    \/ \E accountId \in Accounts, name \in Names : CreateEnvironment_insert(p, accountId, name)
    \/ \E id \in EnvIds : RotateSecretKey_getById(p, id)
    \/ \E id \in EnvIds : RotatePublicKey(p, id)
    \/ \E id \in EnvIds : RevertSecretKey_getById(p, id)
    \/ \E id \in EnvIds : RevertPublicKey_getById(p, id)
    \/ \E id \in EnvIds : ActivateSecretKey_getRawById(p, id)
    \/ \E id \in EnvIds : ActivatePublicKey_getById(p, id)
    \/ \E id \in EnvIds, op \in {"rotateKey", "revertKey", "activateKey"} : OtherTypeKey(p, op, id)

AdminStep(p) ==
    \/ CreateEnvironment_getById(p)
    \/ CreateEnvironment_update(p)
    \/ RotateSecretKey_update1(p)
    \/ RotateSecretKey_update2(p)
    \/ RevertSecretKey_update(p)
    \/ RevertPublicKey_update(p)
    \/ ActivateSecretKey_update(p)
    \/ ActivateSecretKey_getById(p)
    \/ ActivatePublicKey_update(p)

ResolveStart(p) ==
    \/ \E key \in PresentedSecrets : GetAccountAndEnvironmentBySecretKey(p, key)
    \/ \E key \in PresentedPublics : GetAccountAndEnvironmentByPublicKey(p, key)

ResolveStep(p) ==
    \/ GetAccountAndEnvironment_bySecret(p)
    \/ GetAccountAndEnvironment_byName(p)

\* operations one at a time: a handler starts only when no other is in flight
AllIdle == \A q \in Procs : pc[q] = "idle"

NextSeq ==
    \/ \E p \in Procs : (AllIdle /\ (AdminStart(p) \/ ResolveStart(p))) \/ AdminStep(p) \/ ResolveStep(p)
    \/ Restart

SpecSeq == Init /\ [][NextSeq]_vars

\* the same, with a store whose queries can fail under a resolver
NextStoreFault ==
    \/ NextSeq
    \/ \E p \in Procs : GetAccountAndEnvironment_queryFails(p)

SpecStoreFault == Init /\ [][NextStoreFault]_vars

\* the override scenario: several accounts create environments (one at a time),
\* the process restarts with up to MaxScanned override variables, callers resolve
InitOverride ==
    /\ rows = [id \in 1..MaxNamedEnvs |-> EmptyRow]
    /\ nextUuid = 1
    /\ hashLocalCache = <<>>
    /\ isCloud \in BOOLEAN
    /\ ENCRYPTION_KEY \in BOOLEAN
    /\ envVars = <<>>
    /\ pc = [p \in Procs |-> "idle"]
    /\ loc = [p \in Procs |-> NoLoc]
    /\ result = NoResult
    /\ variables = <<>>

NextOverride ==
    \/ \E p \in Procs :
          \/ AllIdle /\ \E accountId \in Tenants, name \in Names :
                            CreateEnvironment_insert(p, accountId, name)
          \/ CreateEnvironment_getById(p)
          \/ CreateEnvironment_update(p)
          \/ AllIdle /\ ResolveStart(p)
          \/ ResolveStep(p)
    \/ RestartWith(MaxScanned)

SpecOverride == InitOverride /\ [][NextOverride]_vars

\* rotation and activation of the secret key of created environments by handlers
\* that interleave at every await; a creation runs alone
Creating == \E q \in Procs : pc[q] \in {"createEnvironment_getById", "createEnvironment_update"}

NextRace ==
    \E p \in Procs :
        \/ AllIdle /\ \E accountId \in Accounts, name \in Names : CreateEnvironment_insert(p, accountId, name)
        \/ CreateEnvironment_getById(p)
        \/ CreateEnvironment_update(p)
        \/ ~Creating /\ \E id \in EnvIds : RotateSecretKey_getById(p, id)
        \/ RotateSecretKey_update1(p)
        \/ RotateSecretKey_update2(p)
        \/ ~Creating /\ \E id \in EnvIds : ActivateSecretKey_getRawById(p, id)
        \/ ActivateSecretKey_update(p)
        \/ ActivateSecretKey_getById(p)

SpecRace == Init /\ [][NextRace]_vars

\* creations and resolutions of secret keys by handlers that interleave at every
\* await: a caller can present the secret of a row whose creation is in flight
NextCreate ==
    \E p \in Procs :
        \/ \E accountId \in Tenants, name \in Names : CreateEnvironment_insert(p, accountId, name)
        \/ CreateEnvironment_getById(p)
        \/ CreateEnvironment_update(p)
        \/ \E key \in PresentedSecrets : GetAccountAndEnvironmentBySecretKey(p, key)
        \/ GetAccountAndEnvironment_bySecret(p)

SpecCreate == InitOverride /\ [][NextCreate]_vars

\* operations one at a time on a store whose ciphertext can be damaged
NextCorrupt ==
    \/ \E p \in Procs :
          \/ AllIdle /\ AdminStart(p)
          \/ AdminStep(p)
          \/ AllIdle /\ \E key \in PresentedSecrets : GetAccountAndEnvironmentBySecretKey(p, key)
          \/ AllIdle /\ \E key \in PresentedPublics : GetAccountAndEnvironmentByPublicKey(p, key)
          \/ GetAccountAndEnvironment_bySecret(p)
    \/ \E id \in EnvIds : Tamper(id)

SpecCorrupt == Init /\ [][NextCorrupt]_vars

\* administrative operations and listings, one at a time, with a store whose
\* selects can be rejected
NextStoreDown ==
    \E p \in Procs :
        \/ AllIdle /\ AdminStart(p)
        \/ AdminStep(p)
        \/ AllIdle /\ \E op \in {"rotateKey", "revertKey", "activateKey"},
                          typ \in {"secret", "public"}, id \in EnvIds :
                          GetById_queryFails(p, op, typ, id)
        \/ GetById_queryFailsLater(p)
        \/ AllIdle /\ \E account_id \in Accounts, rejects \in BOOLEAN :
                          GetEnvironmentsByAccountId(p, account_id, rejects)

SpecStoreDown == Init /\ [][NextStoreDown]_vars

\* environments are created and their variables replaced and read, one call at a time
CreatedIds == {id \in EnvIds : rows[id].exists}

NextVars ==
    \E p \in Procs :
        \/ AllIdle /\ \E accountId \in Accounts, name \in Names :
                          CreateEnvironment_insert(p, accountId, name)
        \/ CreateEnvironment_getById(p)
        \/ CreateEnvironment_update(p)
        \/ AllIdle /\ \E id \in CreatedIds, values \in ValueLists(MaxValues) :
                          EditEnvironmentVariable_del(p, id, values)
        \/ EditEnvironmentVariable_insert(p)
        \/ AllIdle /\ \E id \in CreatedIds : GetEnvironmentVariables(p, id)

SpecVars == InitOverride /\ [][NextVars]_vars

\* the management surface: creation, key rotation, metadata edits and
\* environment variables. Calls run one at a time, except that rotations and
\* activations of the secret key interleave with each other at every await.
KeyHandlersOnly ==
    \A q \in Procs : pc[q] \in {"idle", "rotateSecretKey_update1", "rotateSecretKey_update2",
                                "activateSecretKey_update", "activateSecretKey_getById"}

AdminValueLists == {<<>>, <<[name |-> "A", value |-> 1]>>}

NextAdmin ==
    \E p \in Procs :
        \/ AllIdle /\ AdminStart(p)
        \/ KeyHandlersOnly /\ \E id \in EnvIds : RotateSecretKey_getById(p, id)
        \/ KeyHandlersOnly /\ \E id \in EnvIds : ActivateSecretKey_getRawById(p, id)
        \/ AdminStep(p)
        \/ AllIdle /\ MetadataEdit(p)
        \/ AllIdle /\ \E id \in EnvIds, values \in AdminValueLists :
                          EditEnvironmentVariable_del(p, id, values)
        \/ EditEnvironmentVariable_insert(p)
        \/ AllIdle /\ \E id \in EnvIds : GetEnvironmentVariables(p, id)

SpecAdmin == Init /\ [][NextAdmin]_vars

\* a rotation of the secret key with, between its awaits, operations on the
\* public key and metadata edits of the same environment; a creation runs alone
RotatingSecretOnly ==
    \A q \in Procs : pc[q] \in {"idle", "rotateSecretKey_update1", "rotateSecretKey_update2"}

NextCross ==
    \E p \in Procs :
        \/ AllIdle /\ \E accountId \in Accounts, name \in Names :
                          CreateEnvironment_insert(p, accountId, name)
        \/ CreateEnvironment_getById(p)
        \/ CreateEnvironment_update(p)
        \/ AllIdle /\ \E id \in EnvIds : RotateSecretKey_getById(p, id)
        \/ RotateSecretKey_update1(p)
        \/ RotateSecretKey_update2(p)
        \/ RotatingSecretOnly /\ \E id \in EnvIds : RotatePublicKey(p, id)
        \/ RotatingSecretOnly /\ \E id \in EnvIds : RevertPublicKey_getById(p, id)
        \/ RevertPublicKey_update(p)
        \/ RotatingSecretOnly /\ \E id \in EnvIds : ActivatePublicKey_getById(p, id)
        \/ ActivatePublicKey_update(p)
        \/ RotatingSecretOnly /\ MetadataEdit(p)

SpecCross == Init /\ [][NextCross]_vars

\* replacements and reads of the environment variables of created environments
\* by handlers that interleave at the await between the delete and the insert
NextVarsRace ==
    \E p \in Procs :
        \/ AllIdle /\ \E accountId \in Accounts, name \in Names :
                          CreateEnvironment_insert(p, accountId, name)
        \/ CreateEnvironment_getById(p)
        \/ CreateEnvironment_update(p)
        \/ ~Creating /\ \E id \in CreatedIds, values \in ValueLists(MaxValues) :
                           EditEnvironmentVariable_del(p, id, values)
        \/ EditEnvironmentVariable_insert(p)
        \/ ~Creating /\ \E id \in CreatedIds : GetEnvironmentVariables(p, id)

SpecVarsRace == Init /\ [][NextVarsRace]_vars

\* the read surface: environments of two accounts are created, variables are
\* set, and every read is called with arguments that match a row and with
\* arguments that match none; one call at a time
NextReads ==
    \E p \in Procs :
        \/ AllIdle /\ \E accountId \in Tenants, name \in Names :
                          CreateEnvironment_insert(p, accountId, name)
        \/ CreateEnvironment_getById(p)
        \/ CreateEnvironment_update(p)
        \/ AllIdle /\ \E id \in CreatedIds, values \in AdminValueLists :
                          EditEnvironmentVariable_del(p, id, values)
        \/ EditEnvironmentVariable_insert(p)
        \/ AllIdle /\ \E id \in EnvIds : GetEnvironmentVariables(p, id)
        \/ AllIdle /\ \E account_id \in Tenants, rejects \in BOOLEAN :
                          GetEnvironmentsByAccountId(p, account_id, rejects)
        \/ AllIdle /\ \E id \in EnvIds : GetById(p, id)
        \/ AllIdle /\ \E accountId \in Tenants, name \in Names :
                          GetByEnvironmentName(p, accountId, name)
        \/ AllIdle /\ \E uuid \in Uuids : GetIdByUuid(p, uuid)

SpecReads == InitOverride /\ [][NextReads]_vars

\* resolutions of secret keys interleaved with rotations and activations of the
\* secret key; a creation runs alone. The derivation and the query a handler
\* awaits complete: a handler that can take its step eventually takes it.
NextLive ==
    \E p \in Procs :
        \/ AllIdle /\ \E accountId \in Accounts, name \in Names : CreateEnvironment_insert(p, accountId, name)
        \/ CreateEnvironment_getById(p)
        \/ CreateEnvironment_update(p)
        \/ ~Creating /\ \E id \in EnvIds : RotateSecretKey_getById(p, id)
        \/ RotateSecretKey_update1(p)
        \/ RotateSecretKey_update2(p)
        \/ ~Creating /\ \E id \in EnvIds : ActivateSecretKey_getRawById(p, id)
        \/ ActivateSecretKey_update(p)
        \/ ActivateSecretKey_getById(p)
        \/ ~Creating /\ \E key \in PresentedSecrets : GetAccountAndEnvironmentBySecretKey(p, key)
        \/ GetAccountAndEnvironment_bySecret(p)

SpecLive ==
    /\ Init
    /\ [][NextLive]_vars
    /\ \A p \in Procs : WF_vars(GetAccountAndEnvironment_bySecret(p))

\* ================================================================== claims
\* what a resolver sees in the store
AuthStore(r, e, k) == r[e].exists /\ r[e].secret_key_hashed = hashSecretKey(k, ENCRYPTION_KEY)

\* the presented key is the value of a self-hosted override variable of this prefix
OverrideHit(prefix, key) == ~isCloud /\ key \in OverrideValues(prefix)

\* the active credential of a row: secret (as it decrypts), its hash, public key
ActiveOf(row) == <<row.secret_key.pt, row.secret_key_hashed, row.public_key>>

\* a resolution that completes in this step, while a rotation is pending on e,
\* returns e for the active value and absent for the pending one; with guarded,
\* only for keys no override variable holds
C1_Step(guarded) ==
    \A e \in EnvIds :
        LET env == decryptEnvironment(rows[e])
        IN /\ ( /\ env.exists
                /\ env.pending_secret_key # NullVal
                /\ result'.op = "resolveBySecret"
                /\ guarded => ~OverrideHit("SECRET", result'.key) )
              => /\ (result'.key = env.secret_key.pt => result'.ret = e /\ result'.envOk)
                 /\ (result'.key = env.pending_secret_key.pt => result'.ret = 0)
           /\ ( /\ env.exists
                /\ env.pending_public_key # 0
                /\ result'.op = "resolveByPublicKey"
                /\ guarded => ~OverrideHit("PUBLIC", result'.key) )
              => /\ (result'.key = env.public_key => result'.ret = e /\ result'.envOk)
                 /\ (result'.key = env.pending_public_key => result'.ret = 0)

\* C1 (as claimed): while a rotation is pending, the active value resolves to its
\* environment and the pending value resolves to no environment, for both types.
C1_Original == [][C1_Step(FALSE)]_vars

\* C1 (amended): the same, for every presented key that is not the value of a
\* self-hosted override variable of its prefix (such a key is resolved by the
\* override, whatever the store holds).
C1_Amended == [][C1_Step(TRUE)]_vars

\* a secret resolution through the hash path returned the environment whose active
\* key was presented while that environment has a pending secret
C1_Witness ==
    /\ result.op = "resolveBySecret"
    /\ result.path = "hash"
    /\ result.ret # 0
    /\ rows[result.ret].pending_secret_key # NullVal
    /\ rows[result.ret].secret_key.pt = result.key

ActivatingSecret(e) ==
    \E p \in Procs : /\ pc[p] = "activateSecretKey_update"
                     /\ loc[p].id = e
                     /\ pc'[p] = "activateSecretKey_getById"

ActivatingPublic(e) ==
    \E p \in Procs : /\ pc[p] = "activatePublicKey_update"
                     /\ loc[p].id = e
                     /\ pc'[p] = "idle"
                     /\ result'.ret = 1

\* C2: with a rotation pending (active A, pending P), exactly A authenticates; the
\* one step that changes this is the update of activate, after which exactly P
\* authenticates: no step leaves both or neither authenticating.
C2_AtomicSwitch ==
    [][\A e \in EnvIds :
         LET env == decryptEnvironment(rows[e])
             A == env.secret_key.pt
             P == env.pending_secret_key.pt
         IN /\ (env.exists /\ A # 0 /\ P # 0)
               => /\ AuthStore(rows, e, A) /\ ~AuthStore(rows, e, P)
                  /\ IF ActivatingSecret(e)
                     THEN AuthStore(rows', e, P) /\ ~AuthStore(rows', e, A)
                     ELSE AuthStore(rows', e, A) /\ ~AuthStore(rows', e, P)
            /\ (env.exists /\ env.public_key # 0 /\ env.pending_public_key # 0)
               => IF ActivatingPublic(e)
                  THEN rows'[e].public_key = env.pending_public_key
                  ELSE rows'[e].public_key = env.public_key]_vars

\* the update of activateSecretKey has just promoted a pending secret
C2_Witness ==
    \E p \in Procs :
        /\ pc[p] = "activateSecretKey_getById"
        /\ loc[p].environment.pending_secret_key # NullVal
        /\ loc[p].environment.secret_key # NullVal
        /\ AuthStore(rows, loc[p].id, decryptEnvironment(loc[p].environment).pending_secret_key.pt)
        /\ ~AuthStore(rows, loc[p].id, decryptEnvironment(loc[p].environment).secret_key.pt)

\* C3: activate of the secret key on an environment without a pending secret fails
\* with an error outcome and leaves the row unchanged.
C3_ActivateSecretNoPending ==
    [][\A p \in Procs :
         (pc[p] = "activateSecretKey_update" /\ loc[p].environment.pending_secret_key = NullVal)
         => /\ rows' = rows
            /\ pc'[p] = "idle"
            /\ (result'.thrown \/ result'.ret = 0)]_vars

\* C4: activate of the public key on an environment without a pending public key
\* does not report success and does not change the active public key.
C4_ActivatePublicNoPending ==
    [][\A p \in Procs :
         (pc[p] = "activatePublicKey_update" /\ loc[p].environment.pending_public_key = 0)
         => /\ rows'[loc[p].id].public_key = rows[loc[p].id].public_key
            /\ pc'[p] = "idle"
            /\ (result'.thrown \/ result'.ret = 0)]_vars

\* C5: whenever no operation is in flight, every row's secret_key_hashed is the
\* hash of the secret_key the row decrypts to.
C5_HashOfActive ==
    AllIdle =>
        \A e \in EnvIds :
            rows[e].exists =>
                /\ decryptEnvironment(rows[e]).exists
                /\ rows[e].secret_key_hashed =
                       hashSecretKey(decryptEnvironment(rows[e]).secret_key.pt, ENCRYPTION_KEY)

\* an activation of a pending secret has completed
C5_Witness ==
    /\ AllIdle
    /\ result.op = "activateKey"
    /\ result.typ = "secret"
    /\ result.ret = 1
    /\ rows[result.id].secret_key.pt # 0
    /\ rows[result.id].secret_key_hashed # NullHash

\* C6: no state of the store holds secret_key or pending_secret_key in plaintext.
C6_NoPlaintextAtRest ==
    \A e \in EnvIds :
        rows[e].exists =>
            /\ rows[e].secret_key = NullVal \/ rows[e].secret_key.enc # 0
            /\ rows[e].pending_secret_key = NullVal \/ rows[e].pending_secret_key.enc # 0

\* C7: the read-then-write of beginRotation(secret) and of activate(secret) is atomic
\* on the row: the write-back of a rotation never changes the active secret's hash
\* (it undoes no activation), and an activation promotes the pending value the row
\* holds when it writes (not a stale one).
C7_AtomicOnRow ==
    [][\A p \in Procs :
         /\ (pc[p] = "rotateSecretKey_update2" /\ pc'[p] = "idle")
            => rows'[loc[p].id].secret_key_hashed = rows[loc[p].id].secret_key_hashed
         /\ (pc[p] = "activateSecretKey_update" /\ pc'[p] = "activateSecretKey_getById")
            => rows'[loc[p].id].secret_key = rows[loc[p].id].pending_secret_key]_vars

\* C8: no write of beginRotation or revert changes the active credential or its
\* hash, and the update of revert leaves the pending slot (value, iv, tag) absent.
C8_RotateRevert ==
    [][/\ \A p \in Procs :
            /\ ( /\ pc[p] \in {"rotateSecretKey_update1", "rotateSecretKey_update2",
                               "revertSecretKey_update", "revertPublicKey_update"}
                 /\ pc'[p] # pc[p] )
               => ActiveOf(rows'[loc[p].id]) = ActiveOf(rows[loc[p].id])
            /\ (pc[p] \in {"rotateSecretKey_update2", "revertSecretKey_update"} /\ pc'[p] = "idle")
               => decryptEnvironment(rows'[loc[p].id]).exists
            /\ (pc[p] = "revertSecretKey_update" /\ pc'[p] = "idle")
               => /\ rows'[loc[p].id].pending_secret_key = NullVal
                  /\ rows'[loc[p].id].pending_secret_key_iv = 0
                  /\ rows'[loc[p].id].pending_secret_key_tag = NullTag
                  /\ result'.ret = rows[loc[p].id].secret_key.pt
            /\ (pc[p] = "revertPublicKey_update" /\ pc'[p] = "idle")
               => /\ rows'[loc[p].id].pending_public_key = 0
                  /\ result'.ret = rows[loc[p].id].public_key
       /\ (result'.op = "rotateKey" /\ result'.typ = "public")
          => ActiveOf(rows'[result'.id]) = ActiveOf(rows[result'.id])]_vars

\* revert has read an environment whose secret rotation is pending and is about
\* to clear the slot
C8_Witness ==
    \E p \in Procs :
        /\ pc[p] = "revertSecretKey_update"
        /\ loc[p].environment.pending_secret_key # NullVal
        /\ loc[p].environment.pending_secret_key_iv # 0

\* C9: the one pending slot of a type holds the value the latest beginRotation
\* generated and returned (a rotation already pending is replaced), and activate
\* promotes exactly the value the slot holds.
C9_LatestPending ==
    [][/\ \A p \in Procs :
            /\ (pc[p] = "rotateSecretKey_update2" /\ pc'[p] = "idle")
               => /\ result'.ret = nextUuid - 1
                  /\ decryptEnvironment(rows'[loc[p].id]).exists
                  /\ decryptEnvironment(rows'[loc[p].id]).pending_secret_key = Plain(result'.ret)
            /\ (pc[p] = "activateSecretKey_update" /\ pc'[p] = "activateSecretKey_getById"
                /\ decryptEnvironment(rows[loc[p].id]).pending_secret_key # NullVal)
               => /\ decryptEnvironment(rows'[loc[p].id]).exists
                  /\ decryptEnvironment(rows'[loc[p].id]).secret_key =
                         decryptEnvironment(rows[loc[p].id]).pending_secret_key
                  /\ rows'[loc[p].id].pending_secret_key = NullVal
            /\ (pc[p] = "activatePublicKey_update" /\ pc'[p] = "idle" /\ result'.ret = 1
                /\ rows[loc[p].id].pending_public_key # 0)
               => /\ rows'[loc[p].id].public_key = rows[loc[p].id].pending_public_key
                  /\ rows'[loc[p].id].pending_public_key = 0
       /\ (result'.op = "rotateKey" /\ result'.typ = "public" /\ rows[result'.id].exists)
          => /\ result'.ret = nextUuid
             /\ rows'[result'.id].pending_public_key = result'.ret]_vars

\* a second beginRotation of the secret key has replaced the plaintext of a
\* rotation that was already pending
C9_Witness ==
    \E p \in Procs :
        /\ pc[p] = "rotateSecretKey_update2"
        /\ loc[p].environment.pending_secret_key_iv # 0
        /\ rows[loc[p].id].pending_secret_key = Plain(loc[p].key)

\* C10: a successful resolution through the hash path leaves its key in the Hash
\* Cache, the cache loses entries only when the process restarts, and a resolution
\* that finds its key in the cache derives no hash.
C10_SecondCallHitsCache ==
    [][/\ (result'.op = "resolveBySecret" /\ result'.path = "hash" /\ result'.ret # 0)
          => /\ result'.key \in DOMAIN hashLocalCache'
             /\ hashLocalCache'[result'.key] = hashSecretKey(result'.key, ENCRYPTION_KEY)
       /\ \/ \A k \in DOMAIN hashLocalCache :
                 k \in DOMAIN hashLocalCache' /\ hashLocalCache'[k] = hashLocalCache[k]
          \/ (AllIdle /\ hashLocalCache' = <<>> /\ result' = NoResult)
       /\ \A p \in Procs :
            /\ (pc[p] = "idle" /\ pc'[p] = "getAccountAndEnvironment_bySecret"
                /\ loc'[p].key \in DOMAIN hashLocalCache)
               => ~loc'[p].derived
            /\ (pc[p] = "getAccountAndEnvironment_bySecret" /\ pc'[p] = "idle")
               => result'.derived = loc[p].derived]_vars

\* a resolution through the hash path succeeded without deriving the hash
C10_Witness ==
    /\ result.op = "resolveBySecret"
    /\ result.path = "hash"
    /\ result.ret # 0
    /\ ~result.derived

\* C11: the Hash Cache gains an entry only for the key of a secret-key resolution
\* that returns a row matching that key, and a resolution that returns absent or
\* whose query fails leaves the cache as it is.
C11_NoNegativeCaching ==
    [][/\ \A k \in DOMAIN hashLocalCache' :
            (k \notin DOMAIN hashLocalCache)
            => /\ result'.op = "resolveBySecret"
               /\ result'.key = k
               /\ result'.ret # 0
               /\ AuthStore(rows, result'.ret, k)
       /\ (result'.op = "resolveBySecret" /\ (result'.ret = 0 \/ result'.thrown))
          => hashLocalCache' = hashLocalCache]_vars

\* the query of a resolution failed for a key a row matches, and the key is not
\* in the cache
C11_Witness ==
    /\ result.op = "resolveBySecret"
    /\ result.thrown
    /\ result.path = "hash"
    /\ \E e \in EnvIds : AuthStore(rows, e, result.key)
    /\ result.key \notin DOMAIN hashLocalCache

\* C12: the Hash Cache holds, for a key, exactly the hash hashSecretKey derives for
\* it, and a resolution by secret key returns what a resolver that always derives
\* the hash returns: a row whose secret_key_hashed is the derived hash, or absent
\* when there is none.
C12_CacheTransparent ==
    [][/\ \A k \in DOMAIN hashLocalCache' :
            hashLocalCache'[k] = hashSecretKey(k, ENCRYPTION_KEY)
       /\ \A p \in Procs :
            (pc[p] = "getAccountAndEnvironment_bySecret" /\ pc'[p] = "idle")
            => LET uncached == {id \in EnvIds : AuthStore(rows, id, loc[p].key)}
               IN /\ (uncached = {}) => result'.ret = 0
                  /\ (uncached # {}) => result'.ret \in uncached]_vars

\* a resolution took its hash from the cache and is about to query a store that
\* holds a row for it
C12_Witness ==
    \E p \in Procs :
        /\ pc[p] = "getAccountAndEnvironment_bySecret"
        /\ ~loc[p].derived
        /\ loc[p].key \in DOMAIN hashLocalCache
        /\ \E id \in EnvIds : rows[id].exists /\ rows[id].secret_key_hashed = loc[p].hash

\* C13: activation leaves the Hash Cache as it is, the value that was active
\* before an activation does not authenticate after it, and a resolution of a
\* cached key that is no row's active secret returns absent.
C13_OldValueDead ==
    [][/\ \A p \in Procs :
            /\ (pc[p] \in {"activateSecretKey_update", "activateSecretKey_getById"}
                 /\ pc'[p] # pc[p])
               => hashLocalCache' = hashLocalCache
            /\ (pc[p] = "activateSecretKey_update" /\ pc'[p] = "activateSecretKey_getById"
                 /\ decryptEnvironment(rows[loc[p].id]).secret_key # NullVal)
               => ~AuthStore(rows', loc[p].id, decryptEnvironment(rows[loc[p].id]).secret_key.pt)
       /\ ( /\ result'.op = "resolveBySecret"
            /\ result'.path = "hash"
            /\ result'.key \in DOMAIN hashLocalCache
            /\ \A e \in EnvIds : decryptEnvironment(rows[e]).secret_key.pt # result'.key )
          => result'.ret = 0]_vars

\* a resolution found its key in the cache, derived nothing and returned absent:
\* the key was active once and has been rotated out
C13_Witness ==
    /\ result.op = "resolveBySecret"
    /\ result.path = "hash"
    /\ result.key \in DOMAIN hashLocalCache
    /\ ~result.derived
    /\ result.ret = 0
    /\ \E e \in EnvIds : rows[e].secret_key.pt \notin {0, result.key}

\* C14: beginRotation on an id no row has returns no pending value and changes no
\* row, for both credential types.
C14_RotateMissingFails ==
    [][(result'.op = "rotateKey" /\ result'.typ \in {"secret", "public"}
        /\ ~rows[result'.id].exists)
       => (result'.ret = 0 /\ rows' = rows)]_vars

\* variable i of process.env has this prefix and holds this key
Holds(i, prefix, key) == envVars[i].prefix = prefix /\ envVars[i].value = key

\* an environment of this name exists
Named(name) == \E e \in EnvIds : rows[e].exists /\ rows[e].name = name

\* a secret-key resolution that completes in self-hosted mode, for a key that
\* variable i of the secret prefix holds while an environment of the derived name
\* exists, returns an environment of that name, derives no hash and leaves the
\* cache alone; with firstOnly, only for the first variable that holds the key
C15_Step(firstOnly) ==
    /\ \A i \in 1..Len(envVars) :
         ( /\ result'.op = "resolveBySecret"
           /\ ~isCloud
           /\ Holds(i, "SECRET", result'.key)
           /\ firstOnly => \A j \in 1..(i - 1) : ~Holds(j, "SECRET", result'.key)
           /\ Named(ToLowerCase(envVars[i].suffix)) )
         => /\ result'.ret # 0
            /\ rows[result'.ret].name = ToLowerCase(envVars[i].suffix)
            /\ result'.envOk
            /\ result'.path = "override"
            /\ ~result'.derived
            /\ hashLocalCache' = hashLocalCache
    /\ \A p \in Procs :
         (pc'[p] = "getAccountAndEnvironment_byName" /\ pc[p] = "idle")
         => (~loc'[p].derived /\ hashLocalCache' = hashLocalCache)

\* C15 (as claimed): in self-hosted mode, when a variable of the secret prefix
\* holds the presented key and an environment of the derived name exists, the
\* resolution returns that environment with no hash derivation and no cache access.
C15_Original == [][C15_Step(FALSE)]_vars

\* C15 (amended): the same for the first variable, in the order of process.env,
\* that holds the presented key (the scan stops at it, whether or not an
\* environment has its name).
C15_Amended == [][C15_Step(TRUE)]_vars

\* a secret-key resolution returned an environment through the override while a
\* second variable holds the same key
C15_Witness ==
    /\ result.op = "resolveBySecret"
    /\ result.path = "override"
    /\ result.ret # 0
    /\ ~isCloud
    /\ Cardinality({i \in 1..Len(envVars) : Holds(i, "SECRET", result.key)}) = 2

\* the well-known default account of a self-hosted installation: the first one
DefaultAccount == CHOOSE a \in Tenants : \A b \in Tenants : a <= b

\* C16: when the default account and another account both own an environment of
\* the name the override derived, the override returns the default account's.
C16_DefaultAccount ==
    [][( /\ result'.op \in {"resolveBySecret", "resolveByPublicKey"}
         /\ result'.path = "override"
         /\ result'.ret # 0
         /\ \E e \in EnvIds : /\ rows[e].exists
                               /\ rows[e].name = rows[result'.ret].name
                               /\ rows[e].account_id = DefaultAccount
         /\ \E e \in EnvIds : /\ rows[e].exists
                               /\ rows[e].name = rows[result'.ret].name
                               /\ rows[e].account_id # DefaultAccount )
       => rows[result'.ret].account_id = DefaultAccount]_vars

\* C17: in self-hosted mode, when the first variable that holds the presented key
\* has a suffix equal, ignoring case, to the name of an environment, the
\* resolution returns an environment whose name equals the suffix ignoring case.
C17_SuffixIgnoresCase ==
    [][\A i \in 1..Len(envVars), op \in {"resolveBySecret", "resolveByPublicKey"} :
         LET prefix == IF op = "resolveBySecret" THEN "SECRET" ELSE "PUBLIC"
         IN ( /\ result'.op = op
              /\ ~isCloud
              /\ Holds(i, prefix, result'.key)
              /\ \A j \in 1..(i - 1) : ~Holds(j, prefix, result'.key)
              /\ \E e \in EnvIds : /\ rows[e].exists
                                    /\ ToLowerCase(rows[e].name) = ToLowerCase(envVars[i].suffix) )
            => /\ result'.ret # 0
               /\ ToLowerCase(rows[result'.ret].name) = ToLowerCase(envVars[i].suffix)]_vars

\* C18: in managed-cloud mode no resolution takes the override path: each returns
\* a row whose stored hash / public key its key matches, or absent when there is
\* none, whatever process.env holds.
C18_CloudIgnoresOverrides ==
    [][isCloud =>
         /\ \A p \in Procs : pc'[p] # "getAccountAndEnvironment_byName"
         /\ (result'.op = "resolveBySecret")
            => /\ result'.path = "hash"
               /\ result'.ret # 0 => AuthStore(rows, result'.ret, result'.key)
               /\ result'.ret = 0 => \A e \in EnvIds : ~AuthStore(rows, e, result'.key)
         /\ (result'.op = "resolveByPublicKey")
            => /\ result'.path = "store"
               /\ result'.ret # 0 => rows[result'.ret].public_key = result'.key
               /\ result'.ret = 0
                  => \A e \in EnvIds : ~(rows[e].exists /\ rows[e].public_key = result'.key)]_vars

\* in managed-cloud mode a key that only an override variable holds, naming an
\* environment that exists, resolved to absent
C18_Witness ==
    /\ isCloud
    /\ result.op = "resolveByPublicKey"
    /\ result.key = OperatorKey
    /\ result.ret = 0
    /\ \E i \in 1..Len(envVars) : /\ Holds(i, "PUBLIC", OperatorKey)
                                    /\ Named(ToLowerCase(envVars[i].suffix))

\* the rows a resolution of this key can return: those named by the first variable
\* of the prefix that holds the key in self-hosted mode, else those whose stored
\* hash / public key the key matches
Matching(op, key) ==
    LET prefix == IF op = "resolveBySecret" THEN "SECRET" ELSE "PUBLIC"
        hits == {i \in 1..Len(envVars) : envVars[i].prefix = prefix /\ envVars[i].value = key}
        first == CHOOSE i \in hits : \A j \in hits : i <= j
    IN IF ~isCloud /\ hits # {}
       THEN {id \in EnvIds : rows[id].exists /\ rows[id].name = ToLowerCase(envVars[first].suffix)}
       ELSE IF op = "resolveBySecret"
            THEN {id \in EnvIds : AuthStore(rows, id, key)}
            ELSE {id \in EnvIds : rows[id].exists /\ rows[id].public_key = key}

\* C19: a resolution never throws: it returns absent when its key matches no
\* environment, and a matching environment (decrypted) when there is one.
C19_AbsentNotThrown ==
    [][(result'.op \in {"resolveBySecret", "resolveByPublicKey"})
       => /\ ~result'.thrown
          /\ (Matching(result'.op, result'.key) = {}) => result'.ret = 0
          /\ (Matching(result'.op, result'.key) # {})
             => (result'.ret \in Matching(result'.op, result'.key) /\ result'.envOk)]_vars

\* a resolution of a key nobody owns returned absent
C19_Witness ==
    /\ result.op = "resolveBySecret"
    /\ result.key = WrongKey
    /\ result.ret = 0
    /\ ~result.thrown
    /\ \E e \in EnvIds : rows[e].exists

\* C20: the update of revert is not an error, returns the active value, leaves the
\* active credential and its hash as they are, changes nothing when no rotation
\* is pending, and leaves a row a further revert would not change.
C20_RevertIdempotent ==
    [][\A p \in Procs :
         /\ (pc[p] = "revertSecretKey_update" /\ pc'[p] = "idle")
            => /\ ~result'.thrown
               /\ result'.ret = decryptEnvironment(rows[loc[p].id]).secret_key.pt
               /\ ActiveOf(rows'[loc[p].id]) = ActiveOf(rows[loc[p].id])
               /\ (rows[loc[p].id].pending_secret_key = NullVal) => rows' = rows
               /\ revertedSecretRow(rows'[loc[p].id]) = rows'[loc[p].id]
         /\ (pc[p] = "revertPublicKey_update" /\ pc'[p] = "idle")
            => /\ ~result'.thrown
               /\ result'.ret = rows[loc[p].id].public_key
               /\ ActiveOf(rows'[loc[p].id]) = ActiveOf(rows[loc[p].id])
               /\ (rows[loc[p].id].pending_public_key = 0) => rows' = rows
               /\ revertedPublicRow(rows'[loc[p].id]) = rows'[loc[p].id]]_vars

\* revert of the public key is about to write a row that has no pending public key
C20_Witness ==
    \E p \in Procs :
        /\ pc[p] = "revertPublicKey_update"
        /\ rows[loc[p].id].exists
        /\ rows[loc[p].id].public_key # 0
        /\ rows[loc[p].id].pending_public_key = 0

\* C21: an operation that reads a row whose ciphertext does not decrypt fails
\* hard: it throws, it does not answer as for a missing environment and does not
\* hand out the row.
C21_DecryptFailureHard ==
    [][/\ (/\ result' # result
           /\ result'.op \in {"rotateKey", "revertKey", "activateKey"}
           /\ result'.typ \in {"secret", "public"}
           /\ ~(result'.op = "rotateKey" /\ result'.typ = "public")
           /\ decryptFails(rows[result'.id]))
          => result'.thrown
       /\ (/\ result' # result
           /\ result'.op \in {"resolveBySecret", "resolveByPublicKey"}
           /\ result'.ret # 0
           /\ decryptFails(rows[result'.ret]))
          => result'.thrown]_vars

\* C22: an operation whose query the store rejected ends by throwing: the
\* failure is not turned into an absent, false or empty answer.
C22_StoreFailurePropagates ==
    [][(result' # result /\ result'.storeDown) => result'.thrown]_vars

\* C23: rotateKey, revertKey and activateKey answer "absent" (null or false,
\* nothing thrown) exactly when the environment does not exist, so that an
\* existing environment with nothing pending is told apart from a missing one.
C23_MissingDistinct ==
    [][(/\ result' # result
        /\ result'.op \in {"rotateKey", "revertKey", "activateKey"}
        /\ result'.typ \in {"secret", "public"})
       => ((~rows'[result'.id].exists) <=> (result'.ret = 0 /\ ~result'.thrown))]_vars

\* the elements of a sequence with the number of times each occurs
BagOfSeq(s) ==
    [x \in {s[i] : i \in DOMAIN s} |-> Cardinality({i \in DOMAIN s : s[i] = x})]

\* what getEnvironmentVariables(environment_id) has to return, in any order
Stored(table, environment_id) ==
    BagOfSeq(decryptEnvironmentVariables(OfEnvironment(table, environment_id)))

\* C24: editEnvironmentVariable(e, values) leaves e with exactly the variables
\* of values and the variables of every other environment as they were; with an
\* empty list e has no variable left, null is returned and nothing is thrown;
\* getEnvironmentVariables(e) returns the stored variables of e, decrypted.
C24_ReplaceAll ==
    [][/\ \A p \in Procs :
            /\ (pc[p] = "idle" /\ pc'[p] = "editEnvironmentVariable_insert")
               => /\ OfEnvironment(variables', loc'[p].id) = <<>>
                  /\ NotOfEnvironment(variables', loc'[p].id) = NotOfEnvironment(variables, loc'[p].id)
            /\ (pc[p] = "editEnvironmentVariable_insert" /\ pc'[p] = "idle")
               => /\ Stored(variables', loc[p].id) = BagOfSeq(loc[p].values)
                  /\ NotOfEnvironment(variables', loc[p].id) = NotOfEnvironment(variables, loc[p].id)
                  /\ ~result'.thrown
                  /\ result'.ret # 0
       /\ (AllIdle /\ AllIdle' /\ result'.op = "editEnvironmentVariable")
          => /\ result'.ret = 0
             /\ ~result'.thrown
             /\ OfEnvironment(variables', result'.id) = <<>>
             /\ NotOfEnvironment(variables', result'.id) = NotOfEnvironment(variables, result'.id)
       /\ (AllIdle /\ AllIdle' /\ result'.op = "getEnvironmentVariables")
          => /\ BagOfSeq(result'.list) = Stored(variables, result'.id)
             /\ variables' = variables
             /\ ~result'.thrown]_vars

\* a read returned the two variables a replacement left, while another
\* environment holds variables of its own
C24_Witness ==
    /\ result.op = "getEnvironmentVariables"
    /\ Len(result.list) = 2
    /\ result.list[1] # result.list[2]
    /\ \E other \in EnvIds \ {result.id} :
          /\ OfEnvironment(variables, other) # <<>>
          /\ Stored(variables, other) # Stored(variables, result.id)

\* C25: createEnvironment is an insert followed by the write of the hash. Its
\* completion returns the created environment with the account and the name given,
\* leaves the row with secret_key_hashed = hashSecretKey(secret_key) and no pending
\* key of either type; between the two writes the row exists without a hash and a
\* resolution of its secret finds nothing.
C25_TwoPhaseCreate ==
    [][\A p \in Procs :
         /\ (pc[p] = "createEnvironment_update" /\ pc'[p] = "idle")
            => LET row == rows'[loc[p].id]
               IN /\ ~result'.thrown
                  /\ result'.env = decryptEnvironment(row)
                  /\ result'.env.exists
                  /\ result'.env.account_id = loc[p].account_id
                  /\ result'.env.name = loc[p].envName
                  /\ row.secret_key_hashed = hashSecretKey(result'.env.secret_key.pt, ENCRYPTION_KEY)
                  /\ row.pending_secret_key = NullVal
                  /\ row.pending_public_key = 0
         /\ (pc[p] \in {"createEnvironment_getById", "createEnvironment_update"})
            => LET row == rows[loc[p].id]
               IN /\ row.exists
                  /\ row.secret_key.pt # 0
                  /\ row.secret_key_hashed = NullHash
                  /\ ~AuthStore(rows, loc[p].id, row.secret_key.pt)
                  /\ row.secret_key.pt \notin DOMAIN hashLocalCache
                  /\ \A q \in Procs :
                        (/\ pc[q] = "getAccountAndEnvironment_bySecret"
                         /\ pc'[q] = "idle"
                         /\ loc[q].key = row.secret_key.pt)
                        => (result'.ret = 0 /\ ~result'.thrown)]_vars

\* a creation is between its two writes while a caller's query for the secret of
\* the row it inserted is in flight
C25_Witness ==
    \E p, q \in Procs :
        /\ pc[p] = "createEnvironment_update"
        /\ pc[q] = "getAccountAndEnvironment_bySecret"
        /\ loc[q].key = rows[loc[p].id].secret_key.pt

\* the columns of the secret key, active and pending, and the hash
SecretFields(row) ==
    <<row.secret_key, row.secret_key_iv, row.secret_key_tag, row.secret_key_hashed,
      row.pending_secret_key, row.pending_secret_key_iv, row.pending_secret_key_tag>>

\* C26: the update of activatePublicKey puts the pending public key into the active
\* column and clears the pending one, and writes no secret-key column and no hash;
\* a resolution by public key that reaches the store returns a row whose
\* public_key equals the key presented (absent when there is none), and no
\* resolution by public key derives a hash or changes hashLocalCache.
C26_PublicNoHash ==
    [][/\ \A p \in Procs :
            (pc[p] = "activatePublicKey_update" /\ pc'[p] = "idle" /\ ~result'.thrown)
            => /\ rows'[loc[p].id].public_key = rows[loc[p].id].pending_public_key
               /\ rows'[loc[p].id].pending_public_key = 0
               /\ SecretFields(rows'[loc[p].id]) = SecretFields(rows[loc[p].id])
               /\ \A id \in EnvIds \ {loc[p].id} : rows'[id] = rows[id]
               /\ hashLocalCache' = hashLocalCache
       /\ (result' # result /\ result'.op = "resolveByPublicKey")
            => /\ hashLocalCache' = hashLocalCache
               /\ ~result'.derived
               /\ rows' = rows
               /\ (result'.path = "store")
                  => IF result'.ret = 0
                     THEN \A id \in EnvIds : ~(rows[id].exists /\ rows[id].public_key = result'.key)
                     ELSE /\ rows[result'.ret].exists
                          /\ rows[result'.ret].public_key = result'.key]_vars

\* a pending public key was promoted on a row that has a secret rotation pending,
\* and hashes are cached
C26_Witness ==
    /\ result.op = "activateKey"
    /\ result.typ = "public"
    /\ result.ret = 1
    /\ rows[result.id].public_key # 0
    /\ rows[result.id].pending_public_key = 0
    /\ rows[result.id].pending_secret_key # NullVal

\* C27: each write of rotateKey on an existing environment changes the pending
\* column of the type asked for and no other credential an environment read
\* shows (the active value of that type, secret_key_hashed, both columns of the
\* other type), and the value returned is the value the row holds as pending.
C27_RotateWritesPending ==
    [][/\ \A p \in Procs :
            /\ (pc[p] = "rotateSecretKey_update1" /\ pc'[p] = "rotateSecretKey_update2")
               => rows' = [rows EXCEPT ![loc[p].id].pending_secret_key = Plain(loc'[p].key)]
            /\ (pc[p] = "rotateSecretKey_update2" /\ pc'[p] = "idle")
               => /\ result'.ret # 0
                  /\ rows'[loc[p].id].pending_secret_key.pt = result'.ret
                  /\ ActiveOf(rows'[loc[p].id]) = ActiveOf(rows[loc[p].id])
                  /\ rows'[loc[p].id].pending_public_key = rows[loc[p].id].pending_public_key
                  /\ \A id \in EnvIds \ {loc[p].id} : rows'[id] = rows[id]
       /\ (/\ AllIdle /\ AllIdle'
           /\ nextUuid' = nextUuid + 1
           /\ result'.op = "rotateKey" /\ result'.typ = "public"
           /\ rows[result'.id].exists)
          => /\ result'.ret # 0
             /\ rows' = [rows EXCEPT ![result'.id].pending_public_key = result'.ret]]_vars

\* the pending credentials of a row, and every credential column as stored
PendingOf(row) == <<row.pending_secret_key.pt, row.pending_public_key>>
CredentialFields(row) == <<SecretFields(row), row.public_key, row.pending_public_key>>

\* a handler p is at one of the labels, working on row id
At(labels, id) == \E p \in Procs : pc[p] \in labels /\ loc[p].id = id

\* C28: once a row is created, the values of its active secret key, its hash and
\* its active public key change only in the update of an activation, and its
\* pending values only in a rotation, an activation or a revert; a metadata edit
\* and an environment-variable call change no credential column of any row.
C28_CredentialsFrame ==
    [][/\ \A id \in EnvIds :
            (rows[id].exists /\ ~At({"createEnvironment_getById", "createEnvironment_update"}, id))
            => /\ (ActiveOf(rows'[id]) # ActiveOf(rows[id]))
                  => At({"activateSecretKey_update", "activatePublicKey_update"}, id)
               /\ (PendingOf(rows'[id]) # PendingOf(rows[id]))
                  => \/ At({"rotateSecretKey_update1", "rotateSecretKey_update2",
                            "revertSecretKey_update", "revertPublicKey_update",
                            "activateSecretKey_update", "activatePublicKey_update"}, id)
                     \/ /\ AllIdle /\ AllIdle'
                        /\ result'.op = "rotateKey" /\ result'.typ = "public" /\ result'.id = id
       /\ (AllIdle /\ AllIdle' /\ result'.op \in {"edit", "editEnvironmentVariable",
                                                  "getEnvironmentVariables"})
          => \A id \in EnvIds : CredentialFields(rows'[id]) = CredentialFields(rows[id])
       /\ (variables' # variables) => rows' = rows]_vars

\* C29: resolutions of one secret key that run together and all miss the cache
\* return the same result (the store did not change since the result still on
\* record), and the one that completes last leaves the cache as the first left it:
\* one entry for the key, holding its hash, every other entry untouched.
C29_BenignCacheRace ==
    [][\A p \in Procs :
         (pc[p] = "getAccountAndEnvironment_bySecret" /\ pc'[p] = "idle")
         => /\ (result.op = "resolveBySecret" /\ result.key = loc[p].key)
               => (result'.ret = result.ret /\ result'.thrown = result.thrown)
            /\ (result'.ret = 0) => hashLocalCache' = hashLocalCache
            /\ (result'.ret # 0)
               => /\ DOMAIN hashLocalCache' = DOMAIN hashLocalCache \cup {loc[p].key}
                  /\ hashLocalCache'[loc[p].key] = hashSecretKey(loc[p].key, ENCRYPTION_KEY)
                  /\ \A k \in DOMAIN hashLocalCache \ {loc[p].key} :
                        hashLocalCache'[k] = hashLocalCache[k]
                  /\ (loc[p].key \in DOMAIN hashLocalCache) => hashLocalCache' = hashLocalCache]_vars

\* a handler that missed the cache and derived the hash is about to query, while
\* the other handler's resolution of the same key has already matched and cached it
C29_Witness ==
    \E p \in Procs :
        /\ pc[p] = "getAccountAndEnvironment_bySecret"
        /\ loc[p].derived
        /\ loc[p].key \in DOMAIN hashLocalCache
        /\ result.op = "resolveBySecret"
        /\ result.key = loc[p].key
        /\ result.derived
        /\ result.ret # 0

\* C30: a resolution by secret key that has started its query completes, whatever
\* the other handlers (resolutions, rotations, activations) do or fail to do.
C30_ResolutionCompletes ==
    \A p \in Procs : (pc[p] = "getAccountAndEnvironment_bySecret") ~> (pc[p] = "idle")

\* two handlers resolve the same key, both after a cache miss, while the key's
\* environment has a rotation pending
C30_Witness ==
    \E p, q \in Procs :
        /\ p # q
        /\ pc[p] = "getAccountAndEnvironment_bySecret"
        /\ pc[q] = "getAccountAndEnvironment_bySecret"
        /\ loc[p].key = loc[q].key
        /\ loc[p].derived /\ loc[q].derived
        /\ \E id \in EnvIds : rows[id].exists /\ rows[id].pending_secret_key # NullVal

\* C40: rotateKey, revertKey and activateKey with a type that is neither secret
\* nor public return null, null and false, throw nothing and change no row, no
\* cache entry and no environment variable.
C40_OtherTypeNoEffect ==
    [][(AllIdle /\ AllIdle' /\ result'.typ = "other")
       => /\ result'.op \in {"rotateKey", "revertKey", "activateKey"}
          /\ result'.ret = 0
          /\ ~result'.thrown
          /\ rows' = rows
          /\ hashLocalCache' = hashLocalCache
          /\ variables' = variables
          /\ nextUuid' = nextUuid]_vars

\* activateKey with an unknown type returned on a row that has a pending key of each
\* type, while the cache holds an entry
C40_Witness ==
    /\ result.typ = "other"
    /\ result.op = "activateKey"
    /\ rows[result.id].exists
    /\ rows[result.id].pending_secret_key # NullVal
    /\ rows[result.id].pending_public_key # 0
    /\ DOMAIN hashLocalCache # {}

\* the variables of the prefix of op that hold the key, by position in process.env
HoldersOf(op, key) ==
    {i \in 1..Len(envVars) :
        Holds(i, IF op = "resolveBySecret" THEN "SECRET" ELSE "PUBLIC", key)}

\* C39: in self-hosted mode a resolution whose key a configured variable holds is
\* decided by the first such variable: it goes through the override, derives no
\* hash, leaves the cache alone, and returns absent when no environment has the
\* name that variable derives, whatever later variables or stored credentials
\* say; the lookup by hash / stored public key runs only when no variable holds
\* the key (or in managed-cloud mode).
C39_FirstOverrideDecides ==
    [][(result' # result /\ result'.op \in {"resolveBySecret", "resolveByPublicKey"})
       => LET hits == HoldersOf(result'.op, result'.key)
              first == CHOOSE i \in hits : \A j \in hits : i <= j
          IN IF ~isCloud /\ hits # {}
             THEN /\ result'.path = "override"
                  /\ ~result'.derived
                  /\ ~result'.thrown
                  /\ hashLocalCache' = hashLocalCache
                  /\ (~Named(ToLowerCase(envVars[first].suffix))) => result'.ret = 0
                  /\ (result'.ret # 0)
                     => rows[result'.ret].name = ToLowerCase(envVars[first].suffix)
             ELSE result'.path \in {"hash", "store"}]_vars

\* self-hosted: a secret-key resolution returned absent through the override
\* although the key is the active secret of an environment and a later variable
\* holding the same key names an existing environment
C39_Witness ==
    /\ result.op = "resolveBySecret"
    /\ result.path = "override"
    /\ result.ret = 0
    /\ ~isCloud
    /\ \E e \in EnvIds : rows[e].exists /\ rows[e].secret_key.pt = result.key
    /\ \E i \in HoldersOf("resolveBySecret", result.key) :
          Named(ToLowerCase(envVars[i].suffix))

\* C38: every entry of hashLocalCache maps a key to hashSecretKey of that key; an
\* entry is written for a key that is, at that moment, the active secret key of
\* an environment; and no step of a resolution, rotation, activation or creation
\* removes an entry or changes its hash.
C38_CacheEntriesSound ==
    [][/\ \A k \in DOMAIN hashLocalCache' :
            hashLocalCache'[k] = hashSecretKey(k, ENCRYPTION_KEY)
       /\ \A k \in DOMAIN hashLocalCache :
            k \in DOMAIN hashLocalCache' /\ hashLocalCache'[k] = hashLocalCache[k]
       /\ \A k \in DOMAIN hashLocalCache' \ DOMAIN hashLocalCache :
            /\ \E e \in EnvIds : rows[e].exists /\ rows[e].secret_key.pt = k
            /\ result'.op = "resolveBySecret" /\ result'.key = k /\ result'.ret # 0]_vars

\* the cache holds two entries, one of them for a key that is no longer the
\* active secret of any environment
C38_Witness ==
    /\ Cardinality(DOMAIN hashLocalCache) = 2
    /\ \E k \in DOMAIN hashLocalCache :
          \A e \in EnvIds : rows[e].secret_key.pt # k

SensitiveOf(env) == <<env.secret_key, env.pending_secret_key>>

\* decrypting the encryption of a decrypted environment gives its sensitive
\* values back, and changes no other column than the ivs and tags
RoundTrip(env) ==
    \A iv1, iv2 \in IVs :
        LET back == decryptEnvironment(encryptEnvironment(env, iv1, iv2))
        IN /\ back.exists
           /\ SensitiveOf(back) = SensitiveOf(env)
           /\ (env.pending_secret_key = NullVal) => back.pending_secret_key = NullVal
           /\ back.secret_key_hashed = env.secret_key_hashed
           /\ back.public_key = env.public_key /\ back.pending_public_key = env.pending_public_key
           /\ back.account_id = env.account_id /\ back.name = env.name
           /\ back.metadata = env.metadata

\* decrypting the encryption of a list of environment variables gives the list back
VariablesRoundTrip ==
    \A values \in ValueLists(MaxValues) : \A iv \in IVs :
        decryptEnvironmentVariables(
            encryptEnvironmentVariables(
                [i \in DOMAIN values |->
                    [environment_id |-> 1, name |-> values[i].name, value |-> values[i].value]],
                iv)) = values

C32_OwningAccount ==
    [][(/\ result' # result
        /\ result'.op \in {"resolveBySecret", "resolveByPublicKey"}
        /\ result'.ret # 0)
       => LET environment == rows[result'.ret]
          IN /\ environment.exists
             /\ result'.account # 0
             /\ result'.account = environment.account_id
             /\ result'.envOk => decryptEnvironment(environment).account_id = result'.account
             /\ (result'.path = "hash")
                => environment.secret_key_hashed = hashSecretKey(result'.key, ENCRYPTION_KEY)
             /\ (result'.path = "store") => environment.public_key = result'.key
             /\ (result'.path = "override")
                => \E i \in HoldersOf(result'.op, result'.key) :
                       environment.name = ToLowerCase(envVars[i].suffix)]_vars

\* a secret key was resolved through its hash while another account owns an
\* environment too
C32_Witness ==
    /\ result.op = "resolveBySecret" /\ result.path = "hash" /\ result.ret # 0
    /\ result.account = rows[result.ret].account_id
    /\ \E e \in EnvIds : rows[e].exists /\ rows[e].account_id # result.account

\* C33: a read that matches no row does not fail: getEnvironmentsByAccountId and
\* getEnvironmentVariables answer the empty list, getById, getByEnvironmentName
\* and getIdByUuid answer null; with matching rows they answer those rows.
C33_ReadsOfNothing ==
    [][(result' # result /\ result'.op # "")
       => LET res == result'
              ofAccount == {id \in EnvIds : rows[id].exists /\ rows[id].account_id = res.id}
          IN /\ (res.op = "getEnvironmentsByAccountId" /\ ~res.storeDown)
                => /\ ~res.thrown /\ res.isArray
                   /\ Len(res.list) = Cardinality(ofAccount)
                   /\ (ofAccount = {}) => res.list = <<>>
             /\ (res.op = "getEnvironmentVariables")
                => /\ ~res.thrown /\ res.isArray
                   /\ Len(res.list) = Len(OfEnvironment(variables, res.id))
                   /\ (OfEnvironment(variables, res.id) = <<>>) => res.list = <<>>
             /\ (res.op = "getById")
                => /\ ~res.thrown /\ ~res.isArray
                   /\ res.ret = IF rows[res.id].exists THEN res.id ELSE 0
             /\ (res.op = "getByEnvironmentName")
                => /\ ~res.thrown /\ ~res.isArray
                   /\ IF \E id \in ofAccount : rows[id].name = res.name
                      THEN res.ret \in ofAccount /\ rows[res.ret].name = res.name
                      ELSE res.ret = 0
             /\ (res.op = "getIdByUuid")
                => /\ ~res.thrown /\ ~res.isArray
                   /\ res.ret = IF res.key \in EnvIds /\ rows[res.key].exists THEN res.key ELSE 0]_vars

\* an account that owns environments has read the environment variables of an
\* environment that has none and received the empty list
C33_Witness ==
    /\ result.op = "getEnvironmentVariables" /\ result.isArray /\ result.list = <<>>
    /\ rows[result.id].exists
    /\ variables # <<>>

\* the columns of the public key
PublicFields(row) == <<row.public_key, row.pending_public_key>>

\* C35: operations on the two credential types do not touch each other's
\* columns, however their steps interleave: a write of rotateSecretKey leaves
\* public_key and pending_public_key as the row holds them, and a write of
\* rotatePublicKey, revertPublicKey or activatePublicKey leaves every secret-key
\* column as the row holds it.
C35_TypesIndependent ==
    [][/\ \A p \in Procs :
            /\ (pc[p] \in {"rotateSecretKey_update1", "rotateSecretKey_update2"} /\ pc'[p] # pc[p])
               => PublicFields(rows'[loc[p].id]) = PublicFields(rows[loc[p].id])
            /\ (pc[p] \in {"revertPublicKey_update", "activatePublicKey_update"} /\ pc'[p] # pc[p])
               => SecretFields(rows'[loc[p].id]) = SecretFields(rows[loc[p].id])
       /\ (pc' = pc /\ result'.op = "rotateKey" /\ result'.typ = "public")
          => \A id \in EnvIds : SecretFields(rows'[id]) = SecretFields(rows[id])]_vars

\* C36: a metadata edit that completed while a rotation of the secret key of the
\* same environment was in flight is not lost: no write of rotateSecretKey
\* changes a metadata column of the row.
C36_EditSurvivesRotation ==
    [][\A p \in Procs :
         (pc[p] \in {"rotateSecretKey_update1", "rotateSecretKey_update2"} /\ pc'[p] # pc[p])
         => rows'[loc[p].id].metadata = rows[loc[p].id].metadata]_vars

\* C37: replacements of the variables of one environment are isolated from each
\* other and from reads: a read returns what the table holds for the
\* environment; after each write of a replacement the table holds, for the
\* environment, either what it held before the call or the list of a call (so
\* no read sees anything else); and when the last of two overlapping
\* replacements completes, the environment has the variables of one of them,
\* not of both.
C37_ReplaceIsolated ==
    [][/\ \A p \in Procs :
            /\ (pc[p] = "idle" /\ pc'[p] = "editEnvironmentVariable_insert")
               => \/ Stored(variables', loc'[p].id) = Stored(variables, loc'[p].id)
                  \/ Stored(variables', loc'[p].id) = BagOfSeq(loc'[p].values)
                  \/ \E q \in Procs \ {p} :
                         /\ pc[q] = "editEnvironmentVariable_insert" /\ loc[q].id = loc'[p].id
                         /\ Stored(variables', loc'[p].id) = BagOfSeq(loc[q].values)
            /\ (pc[p] = "editEnvironmentVariable_insert" /\ pc'[p] = "idle")
               => \/ Stored(variables', loc[p].id) = BagOfSeq(loc[p].values)
                  \/ /\ result.op = "editEnvironmentVariable" /\ result.id = loc[p].id
                     /\ Stored(variables', loc[p].id) = BagOfSeq(result.list)
       /\ (pc' = pc /\ result' # result /\ result'.op = "getEnvironmentVariables")
          => BagOfSeq(result'.list) = Stored(variables, result'.id)]_vars

====
